---- MODULE Spec2Model ----
(***************************************************************************)
(* Model of the lock-free ring buffer (RingBuffer), of the asynchronous    *)
(* writer built on it (AsyncWriter) and of their callers, package zlog.    *)
(*                                                                         *)
(* Every atomic operation of the Go code (Load, Store, CompareAndSwap,     *)
(* LoadPointer, StorePointer) is one step of the thread that executes it;  *)
(* Go's sync/atomic operations are sequentially consistent, so the shared  *)
(* state is a single memory that the steps read and write.                 *)
(***************************************************************************)
EXTENDS Integers, Sequences, FiniteSets, TLC

(***************************************************************************)
(* Bounds of the model.                                                    *)
(***************************************************************************)
WordBits == 16      \* width the model gives to Go's int / uint64
RingBits == 2       \* ring sizes 2^1 .. 2^RingBits in the concurrent runs
MaxPuts == 5        \* Put calls of the producer in the concurrent runs
MaxCtorSize == 17   \* largest size passed to NewRingBuffer
MaxSeqPuts == 17    \* Put calls in the sequential runs
MaxCopyPuts == 3    \* Put calls in the runs with long records
MaxWrites == 4      \* Write calls on the AsyncWriter
MaxConcWrites == 3  \* Write calls on the AsyncWriter written by two threads
MaxLongWrites == 3  \* Write calls on the AsyncWriter given long records
MaxMSeqWrites == 7  \* MMapWriter.Write calls made one at a time
MaxMWrites == 4     \* MMapWriter.Write calls of the concurrent runs
MaxCodecMsg == 300      \* longest message passed to a log call
MaxCodecFields == 300   \* largest number of fields passed to a log call
MaxCodecValue == 1100   \* longest string value of a field
MaxLogs == 2        \* log calls on the Logger
MaxSets == 1        \* SetLevel and SetWriter calls on the Logger
MaxOrderLogs == 3   \* log calls of the threads whose order at the sink is checked
MaxFatalLogs == 3   \* log calls on the Logger whose sink is an AsyncWriter
MaxRenders == 3     \* Write calls on a renderer
MaxRenderLen == 112 \* longest prefix of a record given to a renderer
MaxEscLen == 3      \* longest argument of escapeString
MaxULogs == 4       \* log calls on the UltimateLogger
GlobalBufferLen == 512  \* len(globalBuffer) in the model (64 MB in the program)

(***************************************************************************)
(* Program constants.                                                      *)
(***************************************************************************)
EntrySize == 256    \* Entry.data is a [256]byte
MagicHeader == 1431064391   \* 0x554C4F47, "ULOG"
Version == 1
TermMsgJust == 40
UltHeaderSize == 23 \* size := uint64(23 + msgLen)
UltMaxMsg == 200    \* if msgLen > 200 { msgLen = 200 }
LevelDebug == 0
LevelInfo == 1
LevelWarn == 2
LevelError == 3
LevelFatal == 4
FieldTypeInt == 0
FieldTypeUint == 1
FieldTypeFloat32 == 2
FieldTypeFloat64 == 3
FieldTypeString == 4
FieldTypeBool == 5
FieldTypeBytes == 6
DirectBufSize == 256    \* var buf [256]byte of logDirect
PoolBufSize == 1024     \* the buffers of structuredPool
FieldMargin == 64       \* pos < len(buf)-64
HeaderSize == 22        \* writeBinaryHeader returns 22
MaxMsgLen == 255
MaxFieldCount == 255
MaxKeyLen == 255
MaxValueLen == 65535

Word == 2 ^ WordBits

Min(a, b) == IF a < b THEN a ELSE b

RECURSIVE And(_, _)
\* bitwise AND of two naturals
And(a, b) ==
    IF a = 0 \/ b = 0 THEN 0
    ELSE (a % 2) * (b % 2) + 2 * And(a \div 2, b \div 2)

\* two's complement image of a Go int in WordBits bits; uint64(x) conversion
ToUnsigned(x) == x % Word

\* a nil unsafe.Pointer; entries allocated by Put have id >= 1
Nil == [id |-> 0, data |-> <<>>, len |-> 0]

\* the bytes a caller writes into its buffer for its k-th record of n bytes
Payload(k, n) == [i \in 1..n |-> (k + i - 1) % 256]

Producer == 0
Consumers == {1, 2}
Procs == {Producer} \cup Consumers

\* the threads that call MMapWriter.Write
MThreads == {1, 2}

\* the threads that log through one UltimateLogger
UThreads == {1, 2}

\* no call
NoULog == [no |-> 0, level |-> 0, msgLen |-> 0]

\* the threads that log through one Logger
LThreads == {1, 2}

\* no log call
NoCall == [no |-> 0, level |-> 0, path |-> "none", msg |-> <<>>,
           fields |-> <<>>]

VARIABLES
    status,     \* "unbuilt", "ready", "panicked": the RingBuffer object
    size,       \* rb.size
    mask,       \* rb.mask
    head,       \* rb.head
    tail,       \* rb.tail
    buffer,     \* rb.buffer: slot index -> entry pointer (Nil when empty)
    active,     \* the threads that exist in this run
    pc,         \* position of each thread
    arg,        \* the byte slice a thread passed to Put / Write
    lHead,      \* local variable head of Put / Get
    lTail,      \* local variable tail of Get
    lNext,      \* local variable next of Put / Get
    lEntry,     \* local variable p / entry of Get
    ret,        \* boolean result of the thread's last Put / Get
    out,        \* byte slice returned by the thread's last Get
    nextId,     \* number of entries allocated so far (identity of the entries)
    putOK,      \* history: entries for which Put returned true, in order
    gots,       \* history: entries returned by successful Get calls, in order
    reqSize,    \* the size passed to NewRingBuffer
    ctor,       \* "none", "ok", "panic": how the NewRingBuffer call ended
    pre,        \* history: <<head, tail, buffer>> when the last call started
    done,       \* aw.done is closed
    sink,       \* history: the calls of aw.writer, in order
    wret,       \* result of the last AsyncWriter.Write
    mode,       \* which branch of the consumer's select called Get
    nWrites,    \* number of Write calls made so far
    closedAt,   \* history: Len(putOK) when Close was called, -1 before
    mSize,      \* w.size: the capacity of the mapped region
    mPage,      \* w.pageSize
    mOffset,    \* w.offset
    mData,      \* w.data: position -> byte
    mThreads,   \* the threads that call MMapWriter.Write in this run
    mpc,        \* position of each of these threads
    mBuf,       \* the byte slice b a thread passed to Write
    mId,        \* the number of the record in b
    mOff,       \* local variable offset of Write
    mRet,       \* the int result of the thread's last Write
    mRes,       \* history: the ranges the Write calls settled on, in order
    mPending,   \* the syncRange goroutines started and not yet run
    mFlushes,   \* history: the ranges passed to msync
    mCalls,     \* number of Write calls made so far
    mFault,     \* a Write call panicked
    cCall,      \* the log call: path, level, seq, now, msg, fields
    cpc,        \* "input", "encoded", "decoded": how far the record has got
    cOut,       \* the bytes the call passed to its sink
    cDec,       \* what the reader decoded from cOut
    lgLevel,    \* l.state & 0xFF: the minimum level
    lgWriter,   \* l.writer: the handle stored last, an index of lgSinks
    lgSinks,    \* history: the sinks passed to SetWriter, in order
    lgSeq,      \* l.sequence
    lgpc,       \* position of each thread that logs
    lgCall,     \* the log call the thread is in: no, level, path, msg, fields
    lgMin,      \* the level shouldLog loaded, -1 before
    lgNum,      \* local variable seq, 0 before
    lgBuf,      \* buf[:pos]: the encoded record
    lgW,        \* the handle getWriter loaded, 0 before
    lgEpoch,    \* history: l.writer when the call started
    lgOut,      \* history: the calls of sinks, in order
    lgCalls,    \* number of log calls made so far
    lgSets,     \* number of SetLevel and SetWriter calls made so far
    lgExit,     \* the status os.Exit was called with, 0 before
    rKind,      \* "terminal" or "logfmt": the renderer of this run
    rIn,        \* the byte slice b of the last Write call of the renderer
    rRet,       \* the result (n, err) of that call
    rOut,       \* history: the byte slices passed to w.out.Write, in order
    rSaved,     \* w.buf: the output buffer the renderer keeps between calls
    rFault,     \* a Write call indexed b outside its length
    rCalls,     \* number of Write calls made on the renderer so far
    eIn,        \* the argument of escapeString
    eOut,       \* its result
    epc,        \* "input", "done": whether escapeString has returned
    uOffset,    \* globalOffset: the shared write offset of UltimateLogger
    uSeq,       \* l.sequence
    uData,      \* globalBuffer: position -> number of the call that wrote it
    upc,        \* position of each thread that logs through UltimateLogger
    uCall,      \* the log call a thread is in: its number, level, msgLen
    uOff,       \* local variable offset of the call
    uSeen,      \* the offset the last GetBuffer loaded, -1 before
    uFault,     \* GetBuffer sliced globalBuffer past its end
    uCalls      \* number of log calls made so far

vars == <<status, size, mask, head, tail, buffer, active, pc, arg, lHead,
          lTail, lNext, lEntry, ret, out, nextId, putOK, gots, reqSize, ctor,
          pre, done, sink, wret, mode, nWrites, closedAt,
          mSize, mPage, mOffset, mData, mThreads, mpc, mBuf, mId, mOff, mRet,
          mRes, mPending, mFlushes, mCalls, mFault,
          cCall, cpc, cOut, cDec,
          lgLevel, lgWriter, lgSinks, lgSeq, lgpc, lgCall, lgMin, lgNum,
          lgBuf, lgW, lgEpoch, lgOut, lgCalls, lgSets, lgExit,
          rKind, rIn, rRet, rOut, rSaved, rFault, rCalls, eIn, eOut, epc,
          uOffset, uSeq, uData, upc, uCall, uOff, uSeen, uFault, uCalls>>

mmapVars == <<mSize, mPage, mOffset, mData, mThreads, mpc, mBuf, mId, mOff,
              mRet, mRes, mPending, mFlushes, mCalls, mFault>>

\* the state of the objects other than the RingBuffer and the AsyncWriter
codecVars == <<cCall, cpc, cOut, cDec>>

loggerVars == <<lgLevel, lgWriter, lgSinks, lgSeq, lgpc, lgCall, lgMin,
                lgNum, lgBuf, lgW, lgEpoch, lgOut, lgCalls, lgSets, lgExit>>

renderVars == <<rKind, rIn, rRet, rOut, rSaved, rFault, rCalls, eIn, eOut,
                epc>>

ultVars == <<uOffset, uSeq, uData, upc, uCall, uOff, uSeen, uFault, uCalls>>

otherVars == <<mmapVars, codecVars, loggerVars, renderVars, ultVars>>

asyncVars == <<done, sink, wret, mode, nWrites, closedAt>>
harnessVars == <<reqSize, ctor, pre, asyncVars, otherVars>>

ringVars == <<status, size, mask, head, tail, buffer>>
localVars == <<lHead, lTail, lNext, lEntry>>

(***************************************************************************)
(* NewRingBuffer                                                           *)
(***************************************************************************)
\* size&(size-1) != 0
NotPowerOfTwo(sz) == And(ToUnsigned(sz), ToUnsigned(sz - 1)) # 0

\* the outcome of NewRingBuffer(sz): a panic (of the size check, or of make
\* with a negative length), or the constructed object
NewRingBuffer(sz) ==
    IF NotPowerOfTwo(sz) \/ sz < 0
    THEN [status |-> "panicked", size |-> 0, mask |-> 0, buffer |-> <<>>]
    ELSE [status |-> "ready", size |-> sz, mask |-> ToUnsigned(sz - 1),
          buffer |-> [i \in 0..(sz - 1) |-> Nil]]

(***************************************************************************)
(* RingBuffer.Put                                                          *)
(***************************************************************************)
NextIdxNoWrap(i) == i + 1

\* (i + 1) & rb.mask
NextIdx(i) == And(ToUnsigned(i + 1), mask)

IsFullNever(next, t) == FALSE

\* next == rb.tail.Load()
IsFull(next, t) == next = t

MakeEntryShort(id, data) ==
    [id |-> id, data |-> SubSeq(data, 1, Min(Len(data), EntrySize - 1)),
     len |-> Min(Len(data), EntrySize - 1)]

\* entry := &Entry{}; entry.len = copy(entry.data[:], data)
MakeEntry(id, data) ==
    [id |-> id, data |-> SubSeq(data, 1, Min(Len(data), EntrySize)),
     len |-> Min(Len(data), EntrySize)]

\* the locals of a call are dead once it has returned
Forget(t) ==
    /\ lHead' = [lHead EXCEPT ![t] = 0]
    /\ lTail' = [lTail EXCEPT ![t] = 0]
    /\ lNext' = [lNext EXCEPT ![t] = 0]
    /\ lEntry' = [lEntry EXCEPT ![t] = Nil]

AtCaller(t) == pc[t] \in {"idle", "p_done", "g_done"}

\* the caller fills its buffer with a record of n bytes and calls Put;
\* the runs end once limit entries have been allocated
PutCall(t, n, limit) ==
    /\ status = "ready"
    /\ AtCaller(t)
    /\ nextId < limit
    /\ arg' = [arg EXCEPT ![t] = Payload(nextId + 1, n)]
    /\ pc' = [pc EXCEPT ![t] = "p_head"]
    /\ UNCHANGED <<ringVars, active, localVars, ret, out, nextId, putOK, gots>>

\* head := rb.head.Load(); next := (head + 1) & rb.mask
PutLoadHead(t) ==
    /\ status = "ready"
    /\ pc[t] = "p_head"
    /\ lHead' = [lHead EXCEPT ![t] = head]
    /\ lNext' = [lNext EXCEPT ![t] = NextIdx(head)]
    /\ pc' = [pc EXCEPT ![t] = "p_tail"]
    /\ UNCHANGED <<ringVars, active, arg, lTail, lEntry, ret, out, nextId,
                   putOK, gots>>

PutCheckFullOverwrite(t) ==
    /\ status = "ready"
    /\ pc[t] = "p_tail"
    /\ IF IsFull(lNext[t], tail)
       THEN /\ ret' = [ret EXCEPT ![t] = FALSE]
            /\ pc' = [pc EXCEPT ![t] = "p_done"]
            /\ buffer' = [buffer EXCEPT ![lHead[t]] = MakeEntry(nextId, arg[t])]
            /\ Forget(t)
       ELSE /\ pc' = [pc EXCEPT ![t] = "p_store"]
            /\ UNCHANGED <<ret, localVars, buffer>>
    /\ UNCHANGED <<status, size, mask, head, tail, active, arg, out, nextId,
                   putOK, gots>>

\* if next == rb.tail.Load() { return false }
PutCheckFull(t) ==
    /\ status = "ready"
    /\ pc[t] = "p_tail"
    /\ IF IsFull(lNext[t], tail)
       THEN /\ ret' = [ret EXCEPT ![t] = FALSE]
            /\ pc' = [pc EXCEPT ![t] = "p_done"]
            /\ Forget(t)
       ELSE /\ pc' = [pc EXCEPT ![t] = "p_store"]
            /\ UNCHANGED <<ret, localVars>>
    /\ UNCHANGED <<ringVars, active, arg, out, nextId, putOK, gots>>

\* entry := &Entry{}; entry.len = copy(entry.data[:], data);
\* atomic.StorePointer(&rb.buffer[head], unsafe.Pointer(entry));
\* an index outside the slice panics
PutStore(t) ==
    /\ status = "ready"
    /\ pc[t] = "p_store"
    /\ nextId' = nextId + 1
    /\ lEntry' = [lEntry EXCEPT ![t] = MakeEntry(nextId + 1, arg[t])]
    /\ IF lHead[t] \in DOMAIN buffer
       THEN /\ buffer' = [buffer EXCEPT
                            ![lHead[t]] = MakeEntry(nextId + 1, arg[t])]
            /\ pc' = [pc EXCEPT ![t] = "p_pub"]
            /\ UNCHANGED status
       ELSE /\ status' = "panicked"
            /\ UNCHANGED <<buffer, pc>>
    /\ UNCHANGED <<size, mask, head, tail, active, arg, lHead, lTail, lNext,
                   ret, out, putOK, gots>>

\* rb.head.Store(next); return true
PutPublish(t) ==
    /\ status = "ready"
    /\ pc[t] = "p_pub"
    /\ head' = lNext[t]
    /\ ret' = [ret EXCEPT ![t] = TRUE]
    /\ putOK' = Append(putOK, [id |-> lEntry[t].id, data |-> arg[t]])
    /\ pc' = [pc EXCEPT ![t] = "p_done"]
    /\ Forget(t)
    /\ UNCHANGED <<status, size, mask, tail, buffer, active, arg, out, nextId,
                   gots>>

(***************************************************************************)
(* RingBuffer.Get                                                          *)
(***************************************************************************)
GetCall(t) ==
    /\ status = "ready"
    /\ AtCaller(t)
    /\ pc' = [pc EXCEPT ![t] = "g_tail"]
    /\ UNCHANGED <<ringVars, active, arg, localVars, ret, out, nextId, putOK,
                   gots>>

\* tail := rb.tail.Load()
GetLoadTail(t) ==
    /\ status = "ready"
    /\ pc[t] = "g_tail"
    /\ lTail' = [lTail EXCEPT ![t] = tail]
    /\ pc' = [pc EXCEPT ![t] = "g_head"]
    /\ UNCHANGED <<ringVars, active, arg, lHead, lNext, lEntry, ret, out,
                   nextId, putOK, gots>>

\* a Get that goes on to claim a slot without the test for an empty ring
GetLoadHeadAny(t) ==
    /\ status = "ready"
    /\ pc[t] = "g_head"
    /\ lHead' = [lHead EXCEPT ![t] = head]
    /\ pc' = [pc EXCEPT ![t] = "g_cas"]
    /\ UNCHANGED <<ret, out, lTail, lNext, lEntry>>
    /\ UNCHANGED <<ringVars, active, arg, nextId, putOK, gots>>

\* head := rb.head.Load(); if tail == head { return nil, false }
GetLoadHead(t) ==
    /\ status = "ready"
    /\ pc[t] = "g_head"
    /\ IF lTail[t] = head
       THEN /\ ret' = [ret EXCEPT ![t] = FALSE]
            /\ out' = [out EXCEPT ![t] = <<>>]
            /\ pc' = [pc EXCEPT ![t] = "g_done"]
            /\ Forget(t)
       ELSE /\ lHead' = [lHead EXCEPT ![t] = head]
            /\ pc' = [pc EXCEPT ![t] = "g_cas"]
            /\ UNCHANGED <<ret, out, lTail, lNext, lEntry>>
    /\ UNCHANGED <<ringVars, active, arg, nextId, putOK, gots>>

\* next := (tail + 1) & rb.mask; if rb.tail.CompareAndSwap(tail, next) {...}
GetCAS(t) ==
    /\ status = "ready"
    /\ pc[t] = "g_cas"
    /\ lNext' = [lNext EXCEPT ![t] = NextIdx(lTail[t])]
    /\ IF tail = lTail[t]
       THEN /\ tail' = NextIdx(lTail[t])
            /\ pc' = [pc EXCEPT ![t] = "g_wait"]
       ELSE /\ pc' = [pc EXCEPT ![t] = "g_tail"]
            /\ UNCHANGED tail
    /\ UNCHANGED <<status, size, mask, head, buffer, active, arg, lHead, lTail,
                   lEntry, ret, out, nextId, putOK, gots>>

\* p := atomic.LoadPointer(&rb.buffer[tail]); if p != nil {...};
\* runtime.Gosched() and another round when p is nil
GetLoadPtr(t) ==
    /\ status = "ready"
    /\ pc[t] = "g_wait"
    /\ IF lTail[t] \notin DOMAIN buffer
       THEN /\ status' = "panicked"
            /\ UNCHANGED <<pc, lEntry>>
       ELSE /\ UNCHANGED status
            /\ IF buffer[lTail[t]] # Nil
               THEN /\ lEntry' = [lEntry EXCEPT ![t] = buffer[lTail[t]]]
                    /\ pc' = [pc EXCEPT ![t] = "g_clear"]
               ELSE UNCHANGED <<pc, lEntry>>
    /\ UNCHANGED <<size, mask, head, tail, buffer, active, arg, lHead, lTail,
                   lNext, ret, out, nextId, putOK, gots>>

\* atomic.StorePointer(&rb.buffer[tail], nil);
\* return entry.data[:entry.len], true
GetClear(t) ==
    /\ status = "ready"
    /\ pc[t] = "g_clear"
    /\ buffer' = [buffer EXCEPT ![lTail[t]] = Nil]
    /\ ret' = [ret EXCEPT ![t] = TRUE]
    /\ out' = [out EXCEPT ![t] = SubSeq(lEntry[t].data, 1, lEntry[t].len)]
    /\ gots' = Append(gots, [id |-> lEntry[t].id,
                             data |-> SubSeq(lEntry[t].data, 1, lEntry[t].len)])
    /\ pc' = [pc EXCEPT ![t] = "g_done"]
    /\ Forget(t)
    /\ UNCHANGED <<status, size, mask, head, tail, active, arg, nextId, putOK>>

(***************************************************************************)
(* Concurrent runs of one RingBuffer: one producer thread that calls Put,  *)
(* and one or more consumer threads that call Get.                         *)
(***************************************************************************)
RingSizes == {2 ^ k : k \in 1..RingBits}

\* lengths of the records in the concurrent runs
ShortLens == {1}

AsyncIdle ==
    /\ done = FALSE
    /\ sink = <<>>
    /\ wret = "none"
    /\ mode = "run"
    /\ nWrites = 0
    /\ closedAt = -1

\* no MMapWriter has been created
MmapIdle ==
    /\ mSize = 0
    /\ mPage = 0
    /\ mOffset = 0
    /\ mData = <<>>
    /\ mThreads = {}
    /\ mpc = [t \in MThreads |-> "idle"]
    /\ mBuf = [t \in MThreads |-> <<>>]
    /\ mId = [t \in MThreads |-> 0]
    /\ mOff = [t \in MThreads |-> 0]
    /\ mRet = [t \in MThreads |-> 0]
    /\ mRes = <<>>
    /\ mPending = {}
    /\ mFlushes = {}
    /\ mCalls = 0
    /\ mFault = FALSE

\* the run uses none of the objects other than the ring and its writer
\* no record is being encoded
CodecIdle ==
    /\ cCall = <<>>
    /\ cpc = "idle"
    /\ cOut = <<>>
    /\ cDec = <<>>

\* no Logger has been created
LoggerIdle ==
    /\ lgLevel = 0
    /\ lgWriter = 0
    /\ lgSinks = <<>>
    /\ lgSeq = 0
    /\ lgpc = [t \in LThreads |-> "idle"]
    /\ lgCall = [t \in LThreads |-> NoCall]
    /\ lgMin = [t \in LThreads |-> -1]
    /\ lgNum = [t \in LThreads |-> 0]
    /\ lgBuf = [t \in LThreads |-> <<>>]
    /\ lgW = [t \in LThreads |-> 0]
    /\ lgEpoch = [t \in LThreads |-> 0]
    /\ lgOut = <<>>
    /\ lgCalls = 0
    /\ lgSets = 0
    /\ lgExit = 0

\* no renderer has been created and escapeString is not called
RenderIdle ==
    /\ rKind = "none"
    /\ rIn = <<>>
    /\ rRet = [n |-> 0, err |-> "none"]
    /\ rOut = <<>>
    /\ rSaved = <<>>
    /\ rFault = FALSE
    /\ rCalls = 0
    /\ eIn = <<>>
    /\ eOut = <<>>
    /\ epc = "idle"

\* no UltimateLogger is in use
UltIdle ==
    /\ uOffset = 0
    /\ uSeq = 0
    /\ uData = <<>>
    /\ upc = [t \in UThreads |-> "idle"]
    /\ uCall = [t \in UThreads |-> NoULog]
    /\ uOff = [t \in UThreads |-> 0]
    /\ uSeen = -1
    /\ uFault = FALSE
    /\ uCalls = 0

OtherIdle ==
    /\ MmapIdle
    /\ CodecIdle
    /\ LoggerIdle
    /\ RenderIdle
    /\ UltIdle

InitProcs(rb, threads, pcs) ==
    /\ AsyncIdle
    /\ OtherIdle
    /\ reqSize = rb.size
    /\ ctor = "ok"
    /\ pre = <<>>
    /\ status = rb.status
    /\ size = rb.size
    /\ mask = rb.mask
    /\ buffer = rb.buffer
    /\ head = 0
    /\ tail = 0
    /\ active = threads
    /\ pc = pcs
    /\ arg = [t \in Procs |-> <<>>]
    /\ lHead = [t \in Procs |-> 0]
    /\ lTail = [t \in Procs |-> 0]
    /\ lNext = [t \in Procs |-> 0]
    /\ lEntry = [t \in Procs |-> Nil]
    /\ ret = [t \in Procs |-> FALSE]
    /\ out = [t \in Procs |-> <<>>]
    /\ nextId = 0
    /\ putOK = <<>>
    /\ gots = <<>>

InitThreads(rb, cons, pc0) ==
    InitProcs(rb, {Producer} \cup cons,
              [t \in Procs |-> IF t \in cons THEN pc0 ELSE "idle"])

Init ==
    \E sz \in RingSizes, cons \in {{1}, Consumers} :
        InitThreads(NewRingBuffer(sz), cons, "idle")

\* the steps inside a Put call
PutStep(t) ==
    \/ PutLoadHead(t)
    \/ PutCheckFull(t)
    \/ PutStore(t)
    \/ PutPublish(t)

\* the steps inside a Get call
GetStep(t) ==
    \/ GetLoadTail(t)
    \/ GetLoadHead(t)
    \/ GetCAS(t)
    \/ GetLoadPtr(t)
    \/ GetClear(t)

ProducerStep ==
    /\ \/ \E n \in ShortLens : PutCall(Producer, n, MaxPuts)
       \/ PutStep(Producer)
    /\ UNCHANGED harnessVars

ConsumerStep ==
    /\ \E t \in active \ {Producer} : GetCall(t) \/ GetStep(t)
    /\ UNCHANGED harnessVars

Next ==
    \/ ProducerStep
    \/ ConsumerStep

Spec == Init /\ [][Next]_vars

(***************************************************************************)
(* Properties of the concurrent runs.                                      *)
(***************************************************************************)
\* the bytes a Get returns for a record: its first min(len, 256) bytes
Stored(data) == SubSeq(data, 1, Min(Len(data), EntrySize))

GotIds == {gots[i].id : i \in 1..Len(gots)}

\* no thread is inside a call and the cursors are equal
Quiescent ==
    /\ \A t \in active : AtCaller(t)
    /\ head = tail

SPSC == active = {Producer, 1}
SPMC == active = {Producer} \cup Consumers

\* C1: with one producer and one consumer, the entries returned by the
\* successful Get calls are, in order, the first entries for which Put
\* returned true (same entry, same bytes), and once the ring is drained
\* and idle every one of them has been returned.
C1_FifoPrefix ==
    SPSC =>
        /\ Len(gots) <= Len(putOK)
        /\ \A i \in 1..Len(gots) :
              /\ gots[i].id = putOK[i].id
              /\ gots[i].data = Stored(putOK[i].data)
        /\ Quiescent => Len(gots) = Len(putOK)

\* the consumer has taken three entries in order while a later one is queued
C1_Witness ==
    /\ SPSC
    /\ size = 4
    /\ Len(gots) >= 3
    /\ Len(putOK) > Len(gots)

\* C2: with one producer and two consumers, an entry for which Put returned
\* true is never lost (it stays in its slot until a Get returns it), and no
\* two Get calls return the same entry.
C2_ExactlyOnce ==
    SPMC =>
        /\ \A i \in 1..Len(putOK) :
              \/ putOK[i].id \in GotIds
              \/ \E s \in DOMAIN buffer : buffer[s].id = putOK[i].id
        /\ \A i, j \in 1..Len(gots) : gots[i].id = gots[j].id => i = j

\* C36: with one producer and one consumer, a Get that has won the
\* compare-and-swap finds an entry in the slot it claimed (its wait loop
\* does not have to go round), and the producer is never about to store
\* into a slot that the consumer has claimed and not yet cleared.
C36_ClaimedSlotPublished ==
    SPSC =>
        \A t \in active \ {Producer} :
            /\ pc[t] = "g_wait" => buffer[lTail[t]] # Nil
            /\ (pc[t] \in {"g_wait", "g_clear"} /\ pc[Producer] = "p_store")
                  => lHead[Producer] # lTail[t]

\* on a ring of two slots the consumer has claimed slot 0 and not yet read
\* it while the producer is about to store the next entry into slot 1
C36_Witness ==
    /\ SPSC
    /\ size = 2
    /\ pc[1] = "g_wait"
    /\ lTail[1] = 0
    /\ buffer[0] # Nil
    /\ pc[Producer] = "p_store"
    /\ lHead[Producer] = 1

\* the slots claimed so far: the compare-and-swaps on tail that succeeded
\* (their Get calls have returned an entry or are waiting for one)
Claimed ==
    Len(gots) + Cardinality({t \in active \ {Producer} :
                                 pc[t] \in {"g_wait", "g_clear"}})

\* the step in which Put returns false
PutReportsFull ==
    /\ pc[Producer] = "p_tail"
    /\ pc'[Producer] = "p_done"
    /\ ret'[Producer] = FALSE

\* C29: with one producer and one or two consumers, the slots claimed by
\* consumers never outnumber the entries Put has published, and Put does
\* not report the ring full while no slot holds an entry.
C29_TailBehindHead ==
    /\ [](Claimed <= Len(putOK))
    /\ [][PutReportsFull => \E s \in DOMAIN buffer : buffer[s] # Nil]_vars

\* the scheduling the Go runtime gives to the concurrent runs: the producer
\* goes on calling Put and taking the steps of its calls, and a consumer
\* inside a Get call eventually takes the next step of the call (a round of
\* the wait loop that finds the slot empty changes nothing)
FairSpec ==
    /\ Init
    /\ [][Next]_vars
    /\ WF_vars(ProducerStep)
    /\ \A t \in Consumers : WF_vars(GetStep(t) /\ UNCHANGED harnessVars)

\* C30: a Get call that has won the compare-and-swap on tail sees an entry
\* in the slot it claimed and returns, as long as the producer goes on
\* calling Put (in the model: unless the producer has used up its calls).
C30_GetTerminates ==
    \A t \in Consumers :
        (t \in active /\ pc[t] = "g_wait")
            ~> (pc[t] = "g_done" \/ nextId >= MaxPuts)

(***************************************************************************)
(* Sequential runs: one thread constructs a RingBuffer of any size and     *)
(* then calls Put and Get one at a time.                                   *)
(***************************************************************************)
MinInt == -(2 ^ (WordBits - 1))

CtorSizes == {MinInt} \cup (-2..MaxCtorSize)

\* no RingBuffer has been constructed
Unbuilt ==
    /\ AsyncIdle
    /\ status = "unbuilt"
    /\ size = 0
    /\ mask = 0
    /\ buffer = <<>>
    /\ head = 0
    /\ tail = 0
    /\ active = {Producer}
    /\ pc = [t \in Procs |-> "idle"]
    /\ arg = [t \in Procs |-> <<>>]
    /\ lHead = [t \in Procs |-> 0]
    /\ lTail = [t \in Procs |-> 0]
    /\ lNext = [t \in Procs |-> 0]
    /\ lEntry = [t \in Procs |-> Nil]
    /\ ret = [t \in Procs |-> FALSE]
    /\ out = [t \in Procs |-> <<>>]
    /\ nextId = 0
    /\ putOK = <<>>
    /\ gots = <<>>
    /\ reqSize = 0
    /\ ctor = "none"
    /\ pre = <<>>

SeqInit ==
    /\ Unbuilt
    /\ OtherIdle

\* rb := NewRingBuffer(sz)
Construct ==
    /\ status = "unbuilt"
    /\ \E sz \in CtorSizes :
        LET rb == NewRingBuffer(sz) IN
        /\ reqSize' = sz
        /\ ctor' = IF rb.status = "ready" THEN "ok" ELSE "panic"
        /\ status' = rb.status
        /\ size' = rb.size
        /\ mask' = rb.mask
        /\ buffer' = rb.buffer
    /\ UNCHANGED <<head, tail, active, pc, arg, localVars, ret, out, nextId,
                   putOK, gots, pre, asyncVars, otherVars>>

SeqPutCall ==
    /\ \E n \in ShortLens : PutCall(Producer, n, MaxSeqPuts)
    /\ pre' = <<head, tail, buffer>>
    /\ UNCHANGED <<reqSize, ctor, asyncVars, otherVars>>

SeqGetCall ==
    /\ GetCall(Producer)
    /\ pre' = <<head, tail, buffer>>
    /\ UNCHANGED <<reqSize, ctor, asyncVars, otherVars>>

SeqStep ==
    /\ PutStep(Producer) \/ GetStep(Producer)
    /\ UNCHANGED harnessVars

SeqNext ==
    \/ Construct
    \/ SeqPutCall
    \/ SeqGetCall
    \/ SeqStep

SeqSpec == SeqInit /\ [][SeqNext]_vars

\* n is a power of two
IsPowerOfTwo(n) == \E k \in 0..WordBits : n = 2 ^ k

\* number of entries the buffer holds
Held == Cardinality({s \in DOMAIN buffer : buffer[s] # Nil})

\* the buffer was constructed with a size that is a power of two
ValidSize == ctor = "ok" /\ IsPowerOfTwo(size)

\* number of entries the buffer held when the last call started
HeldBefore == Cardinality({s \in DOMAIN pre[3] : pre[3][s] # Nil})

\* C7: with calls run one at a time on a buffer of size N, a power of two,
\* Put returns false exactly when the buffer held N-1 entries when it was
\* called and Get returns false exactly when it held none; as long as no
\* entry has been taken, at most N-1 Puts have succeeded and a Put fails
\* only after N-1 have.
C7_Capacity ==
    ValidSize =>
        /\ pc[Producer] = "p_done" => (~ret[Producer] <=> HeldBefore = size - 1)
        /\ pc[Producer] = "g_done" => (~ret[Producer] <=> HeldBefore = 0)
        /\ gots = <<>> => Len(putOK) <= size - 1
        /\ (gots = <<>> /\ pc[Producer] = "p_done" /\ ~ret[Producer])
              => Len(putOK) = size - 1

\* a buffer of size 16 took 15 entries and refused the 16th
C7_Witness ==
    /\ ctor = "ok"
    /\ size = 16
    /\ gots = <<>>
    /\ Len(putOK) = 15
    /\ pc[Producer] = "p_done"
    /\ ~ret[Producer]

\* C8: a Put that returns false and a Get that returns false leave head,
\* tail and every slot as they were when the call started.
C8_FailedCallFrame ==
    (status = "ready" /\ pc[Producer] \in {"p_done", "g_done"} /\ ~ret[Producer])
        => <<head, tail, buffer>> = pre

\* Put was refused by a full buffer of size 4 whose cursors have wrapped
C8_Witness ==
    /\ size = 4
    /\ pc[Producer] = "p_done"
    /\ ~ret[Producer]
    /\ Held = 3
    /\ Len(gots) >= 2

\* C9: NewRingBuffer panics for every size that is not a power of two and
\* returns a buffer for every size that is one.
C9_PowerOfTwoOnly ==
    ctor # "none" => (ctor = "ok" <=> IsPowerOfTwo(reqSize))

\* C37: on a buffer of any size that NewRingBuffer has accepted, 0 and 1
\* included, Put and Get index no slot outside [0, size): no call panics
\* on an index, and the slot a call is about to store to or to read lies
\* in the buffer.
C37_IndexInRange ==
    ctor = "ok" =>
        /\ status # "panicked"
        /\ pc[Producer] = "p_store" => lHead[Producer] \in DOMAIN buffer
        /\ pc[Producer] \in {"g_wait", "g_clear"}
              => lTail[Producer] \in DOMAIN buffer

(***************************************************************************)
(* Sequential runs with records of every length around the entry size, in *)
(* which the caller reuses its buffer after Put has returned.              *)
(***************************************************************************)
CopyLens == {0, 1, EntrySize - 1, EntrySize, EntrySize + 1, 300}

\* what the caller's buffer holds once the caller has reused it
Scribbled(b) == [i \in 1..Len(b) |-> 255]

CopyInit == InitThreads(NewRingBuffer(2 ^ RingBits), {}, "idle")

CopyPutCall ==
    /\ \E n \in CopyLens : PutCall(Producer, n, MaxCopyPuts)
    /\ UNCHANGED harnessVars

CopyGetCall ==
    /\ GetCall(Producer)
    /\ UNCHANGED harnessVars

CopyStep ==
    /\ PutStep(Producer) \/ GetStep(Producer)
    /\ UNCHANGED harnessVars

\* the caller overwrites the buffer it passed to Put
Reuse ==
    /\ AtCaller(Producer)
    /\ arg[Producer] # Scribbled(arg[Producer])
    /\ arg' = [arg EXCEPT ![Producer] = Scribbled(arg[Producer])]
    /\ UNCHANGED <<ringVars, active, pc, localVars, ret, out, nextId, putOK,
                   gots, harnessVars>>

CopyNext ==
    \/ CopyPutCall
    \/ CopyGetCall
    \/ CopyStep
    \/ Reuse

CopySpec == CopyInit /\ [][CopyNext]_vars

\* C10: the i-th successful Get returns the first min(len, 256) bytes that
\* the i-th successful Put was given, whatever the caller has done to its
\* buffer since, and the slice handed to the caller is that copy.
C10_PrivateCopy ==
    /\ \A i \in 1..Len(gots) :
          LET given == putOK[i].data
              got == gots[i].data
          IN /\ Len(got) = Min(Len(given), 256)
             /\ \A j \in 1..Len(got) : got[j] = given[j]
    /\ (pc[Producer] = "g_done" /\ ret[Producer])
          => out[Producer] = gots[Len(gots)].data

\* a record of more than 256 bytes came back as 256 bytes after the caller
\* had overwritten its buffer
C10_Witness ==
    /\ pc[Producer] = "g_done"
    /\ ret[Producer]
    /\ Len(putOK[Len(gots)].data) > 256
    /\ Len(out[Producer]) = 256
    /\ arg[Producer] = Scribbled(arg[Producer])
    /\ Len(arg[Producer]) > 256

(***************************************************************************)
(* AsyncWriter: one thread calls Write, the goroutine started by           *)
(* NewAsyncWriter runs consumer, and Close is called at most once (a       *)
(* second close of aw.done would panic).                                   *)
(***************************************************************************)
ConsumerThread == 1

\* the results the downstream sink can return: nil or an error
SinkResults == {"nil", "err"}

AsyncInit ==
    \E sz \in RingSizes :
        InitThreads(NewRingBuffer(sz), {ConsumerThread}, "c_loop")

ringOnly == <<reqSize, ctor, pre, otherVars>>

\* aw.Write(b) called by thread t: the caller fills b with its next record;
\* aw.rb.Put(b)
WriteCallBy(t, limit, lens) ==
    /\ status = "ready"
    /\ pc[t] \in {"idle", "w_done"}
    /\ nWrites < limit
    /\ nWrites' = nWrites + 1
    /\ \E n \in lens :
          arg' = [arg EXCEPT ![t] = Payload(nWrites + 1, n)]
    /\ pc' = [pc EXCEPT ![t] = "p_head"]
    /\ UNCHANGED <<ringVars, active, localVars, ret, out, nextId, putOK, gots,
                   ringOnly, done, sink, wret, mode, closedAt>>

WriteCall == WriteCallBy(Producer, MaxWrites, ShortLens)

\* the steps of the Put call made by Write
WritePut ==
    /\ PutStep(Producer)
    /\ UNCHANGED harnessVars

\* if aw.rb.Put(b) { return nil }; return aw.writer(b), in thread t
WriteReturnBy(t) ==
    /\ status = "ready"
    /\ pc[t] = "p_done"
    /\ IF ret[t]
       THEN /\ wret' = "nil"
            /\ UNCHANGED sink
       ELSE \E r \in SinkResults :
            /\ sink' = Append(sink, [data |-> arg[t], via |-> "direct",
                                     res |-> r])
            /\ wret' = r
    /\ pc' = [pc EXCEPT ![t] = "w_done"]
    /\ UNCHANGED <<ringVars, active, arg, localVars, ret, out, nextId, putOK,
                   gots, ringOnly, done, mode, nWrites, closedAt>>

WriteReturnDrop ==
    /\ status = "ready"
    /\ pc[Producer] = "p_done"
    /\ wret' = "nil"
    /\ pc' = [pc EXCEPT ![Producer] = "w_done"]
    /\ UNCHANGED <<ringVars, active, arg, localVars, ret, out, nextId, putOK,
                   gots, ringOnly, done, sink, mode, nWrites, closedAt>>

WriteReturnNoResult ==
    /\ status = "ready"
    /\ pc[Producer] = "p_done"
    /\ IF ret[Producer]
       THEN UNCHANGED sink
       ELSE \E r \in SinkResults :
            sink' = Append(sink, [data |-> arg[Producer], via |-> "direct",
                                  res |-> r])
    /\ wret' = "nil"
    /\ pc' = [pc EXCEPT ![Producer] = "w_done"]
    /\ UNCHANGED <<ringVars, active, arg, localVars, ret, out, nextId, putOK,
                   gots, ringOnly, done, mode, nWrites, closedAt>>

\* if aw.rb.Put(b) { return nil }; return aw.writer(b)
WriteReturn == WriteReturnBy(Producer)

\* select { case <-aw.done: ... default: ... }, then the call of Get
ConsumerSelect ==
    /\ status = "ready"
    /\ pc[ConsumerThread] = "c_loop"
    /\ mode' = IF done THEN "drain" ELSE "run"
    /\ pc' = [pc EXCEPT ![ConsumerThread] = "g_tail"]
    /\ UNCHANGED <<ringVars, active, arg, localVars, ret, out, nextId, putOK,
                   gots, ringOnly, done, sink, wret, nWrites, closedAt>>

\* the steps of the Get call made by consumer
ConsumerGet ==
    /\ GetStep(ConsumerThread)
    /\ UNCHANGED harnessVars

\* s with x inserted after its first i elements
InsertAt(s, i, x) == SubSeq(s, 1, i) \o <<x>> \o SubSeq(s, i + 1, Len(s))

ConsumerDeliverDetached ==
    /\ status = "ready"
    /\ pc[ConsumerThread] = "g_done"
    /\ IF ret[ConsumerThread]
       THEN /\ \E r \in SinkResults, i \in 0..Len(sink) :
                 sink' = InsertAt(sink, i, [data |-> out[ConsumerThread],
                                            via |-> "ring", res |-> r])
            /\ pc' = [pc EXCEPT ![ConsumerThread] =
                          IF mode = "drain" THEN "g_tail" ELSE "c_loop"]
       ELSE /\ UNCHANGED sink
            /\ pc' = [pc EXCEPT ![ConsumerThread] =
                          IF mode = "drain" THEN "c_exit" ELSE "c_loop"]
    /\ UNCHANGED <<ringVars, active, arg, localVars, ret, out, nextId, putOK,
                   gots, ringOnly, done, wret, mode, nWrites, closedAt>>

\* data, ok := aw.rb.Get() has returned.
\* drain: if !ok { return }; aw.writer(data); and Get again
\* default: if ok { aw.writer(data) } else { runtime.Gosched() }; and select
ConsumerDeliver ==
    /\ status = "ready"
    /\ pc[ConsumerThread] = "g_done"
    /\ IF ret[ConsumerThread]
       THEN /\ \E r \in SinkResults :
                 sink' = Append(sink, [data |-> out[ConsumerThread],
                                       via |-> "ring", res |-> r])
            /\ pc' = [pc EXCEPT ![ConsumerThread] =
                          IF mode = "drain" THEN "g_tail" ELSE "c_loop"]
       ELSE /\ UNCHANGED sink
            /\ pc' = [pc EXCEPT ![ConsumerThread] =
                          IF mode = "drain" THEN "c_exit" ELSE "c_loop"]
    /\ UNCHANGED <<ringVars, active, arg, localVars, ret, out, nextId, putOK,
                   gots, ringOnly, done, wret, mode, nWrites, closedAt>>

\* close(aw.done); return nil
Close ==
    /\ status = "ready"
    /\ ~done
    /\ done' = TRUE
    /\ closedAt' = Len(putOK)
    /\ UNCHANGED <<ringVars, active, pc, arg, localVars, ret, out, nextId,
                   putOK, gots, ringOnly, sink, wret, mode, nWrites>>

AsyncNext ==
    \/ WriteCall
    \/ WritePut
    \/ WriteReturn
    \/ ConsumerSelect
    \/ ConsumerGet
    \/ ConsumerDeliver
    \/ Close

AsyncSpec == AsyncInit /\ [][AsyncNext]_vars

\* the payloads the sink has been called with
Delivered == {sink[i].data : i \in 1..Len(sink)}

\* C3: once Close has returned, every record that was queued in the ring
\* when Close was called has been delivered to the downstream sink.
C3_CloseDrains ==
    closedAt >= 0 =>
        \A i \in 1..closedAt : Stored(putOK[i].data) \in Delivered

(***************************************************************************)
(* AsyncWriter on which Close is never called, with the scheduling the Go  *)
(* runtime gives: a thread that can take a step eventually takes one.      *)
(***************************************************************************)
LiveNext ==
    \/ WriteCall
    \/ WritePut
    \/ WriteReturn
    \/ ConsumerSelect
    \/ ConsumerGet
    \/ ConsumerDeliver

LiveSpec ==
    /\ AsyncInit
    /\ [][LiveNext]_vars
    /\ WF_vars(WritePut \/ WriteReturn)
    /\ WF_vars(ConsumerSelect \/ ConsumerGet \/ ConsumerDeliver)

\* the number of the Write call a payload comes from (its first byte)
RecOf(data) == data[1]

\* the calls of the sink that carried record k
Deliveries(k) == {i \in 1..Len(sink) : RecOf(sink[i].data) = k}

\* C4: with one thread calling Write and Close never called, no record
\* reaches the sink twice or before it was written, and every record
\* passed to Write eventually reaches the sink.
C4_ExactlyOnce ==
    /\ [](\A k \in 1..MaxWrites :
            /\ Cardinality(Deliveries(k)) <= 1
            /\ Deliveries(k) # {} => k <= nWrites)
    /\ \A k \in 1..MaxWrites : (nWrites >= k) ~> (Deliveries(k) # {})

\* every record was written and delivered, some through the ring and some
\* by the fallback
C4_Witness ==
    /\ ~done
    /\ nWrites = MaxWrites
    /\ \A k \in 1..MaxWrites : Deliveries(k) # {}
    /\ \E i \in 1..Len(sink) : sink[i].via = "ring"
    /\ \E i \in 1..Len(sink) : sink[i].via = "direct"

\* the sink calls made with the bytes the writer has just passed to Write
OwnDeliveries == {i \in 1..Len(sink) : sink[i].data = arg[Producer]}

\* C5: when Put reports the ring full, Write has called the sink exactly
\* once with the record by the time it returns, directly, and returns the
\* result of that call; no step of such a Write changes head, tail or a
\* slot.
C5_Fallback ==
    /\ [](pc[Producer] = "w_done" /\ ~ret[Producer] =>
            /\ Cardinality(OwnDeliveries) = 1
            /\ \A i \in OwnDeliveries :
                  sink[i].via = "direct" /\ sink[i].res = wret)
    /\ [][(pc'[Producer] # pc[Producer]
            /\ pc[Producer] \notin {"p_store", "p_pub"})
           => UNCHANGED <<head, tail, buffer>>]_vars

\* the fallback ran on a full ring and the sink returned an error
C5_Witness ==
    /\ pc[Producer] = "w_done"
    /\ ~ret[Producer]
    /\ wret = "err"
    /\ Held = size - 1
    /\ sink[Len(sink)].data = arg[Producer]

\* C6: the records that went through the ring reach the sink in the order
\* they were written: a record delivered ahead of a record written before
\* it took the synchronous fallback.
C6_RingOrder ==
    \A i, j \in 1..Len(sink) :
        (i < j /\ RecOf(sink[i].data) > RecOf(sink[j].data))
            => sink[i].via = "direct"

\* a record that took the fallback overtook an earlier one from the ring
C6_Witness ==
    \E i, j \in 1..Len(sink) :
        /\ i < j
        /\ RecOf(sink[i].data) > RecOf(sink[j].data)
        /\ sink[i].via = "direct"
        /\ sink[j].via = "ring"

\* the consumer goroutine has returned and no Write call is running: no
\* step of the AsyncWriter can call the sink any more
AsyncOver ==
    /\ pc[ConsumerThread] = "c_exit"
    /\ pc[Producer] \in {"idle", "w_done"}

\* C32: a record passed to Write while Close runs or after it is not left
\* in the ring: once the consumer has drained and returned and Write has
\* returned, every record passed to Write has been handed to the sink (by
\* the consumer, or by the fallback whose result Write returns).
C32_NoStrandedRecord ==
    AsyncOver => \A k \in 1..nWrites : Deliveries(k) # {}

(***************************************************************************)
(* AsyncWriter with two threads that call Write (two goroutines that log   *)
(* through one Logger whose sink is aw.Writer()); Close is never called.   *)
(* wret is the result of the Write call that returned last.                *)
(***************************************************************************)
Writers == {Producer, 2}

ConcInit ==
    \E sz \in RingSizes :
        InitProcs(NewRingBuffer(sz), Writers \cup {ConsumerThread},
                  [t \in Procs |-> IF t = ConsumerThread THEN "c_loop"
                                   ELSE "idle"])

ConcWriteCall == \E t \in Writers : WriteCallBy(t, MaxConcWrites, ShortLens)

ConcWritePut ==
    /\ \E t \in Writers : PutStep(t)
    /\ UNCHANGED harnessVars

ConcWriteReturn == \E t \in Writers : WriteReturnBy(t)

ConcNext ==
    \/ ConcWriteCall
    \/ ConcWritePut
    \/ ConcWriteReturn
    \/ ConsumerSelect
    \/ ConsumerGet
    \/ ConsumerDeliver

ConcSpec == ConcInit /\ [][ConcNext]_vars

\* no Write call is running and the consumer has found the ring empty
ConcIdle ==
    /\ \A t \in Writers : pc[t] \in {"idle", "w_done"}
    /\ pc[ConsumerThread] = "c_loop"
    /\ head = tail
    /\ ~ret[ConsumerThread]

\* C31: with two threads calling Write concurrently, no record reaches the
\* sink twice, every record has reached it once the writers have returned
\* and the consumer has found the ring empty, and head only moves forward
\* (by one slot).
C31_ConcurrentWrite ==
    /\ [](\A k \in 1..MaxConcWrites : Cardinality(Deliveries(k)) <= 1)
    /\ [](ConcIdle => \A k \in 1..nWrites : Deliveries(k) # {})
    /\ [][head' # head => head' = NextIdx(head)]_vars

(***************************************************************************)
(* MMapWriter.Write.  offset.Add and offset.Store are one step each; the   *)
(* copy into the mapped region, the page test and the start of the         *)
(* syncRange goroutine touch only the thread's own range and are the last  *)
(* step of the call.                                                       *)
(***************************************************************************)
\* copy(w.data[start:start+len(b)], b)
CopyIntoShifted(data, start, b) ==
    [i \in DOMAIN data |->
        IF start < i /\ i <= start + Len(b) THEN b[i - start] ELSE data[i]]

CopyInto(data, start, b) ==
    [i \in DOMAIN data |->
        IF start <= i /\ i < start + Len(b) THEN b[i - start + 1] ELSE data[i]]

\* Write that resets the offset when it is given an empty record
MMapWriteCallReset(t, n, limit) ==
    /\ t \in mThreads
    /\ ~mFault
    /\ mpc[t] \in {"idle", "m_done"}
    /\ mCalls < limit
    /\ mCalls' = mCalls + 1
    /\ mBuf' = [mBuf EXCEPT ![t] = Payload(mCalls + 1, n)]
    /\ mId' = [mId EXCEPT ![t] = mCalls + 1]
    /\ mOff' = [mOff EXCEPT ![t] = 0]
    /\ IF n = 0
       THEN /\ mRet' = [mRet EXCEPT ![t] = 0]
            /\ mpc' = [mpc EXCEPT ![t] = "m_done"]
       ELSE /\ mpc' = [mpc EXCEPT ![t] = "m_add"]
            /\ UNCHANGED mRet
    /\ mOffset' = IF n = 0 THEN 0 ELSE mOffset
    /\ UNCHANGED <<mSize, mPage, mData, mThreads, mRes, mPending, mFlushes,
                   mFault>>

\* w.Write(b): n := int64(len(b)); if n == 0 { return 0, nil }
MMapWriteCall(t, n, limit) ==
    /\ t \in mThreads
    /\ ~mFault
    /\ mpc[t] \in {"idle", "m_done"}
    /\ mCalls < limit
    /\ mCalls' = mCalls + 1
    /\ mBuf' = [mBuf EXCEPT ![t] = Payload(mCalls + 1, n)]
    /\ mId' = [mId EXCEPT ![t] = mCalls + 1]
    /\ mOff' = [mOff EXCEPT ![t] = 0]
    /\ IF n = 0
       THEN /\ mRet' = [mRet EXCEPT ![t] = 0]
            /\ mpc' = [mpc EXCEPT ![t] = "m_done"]
       ELSE /\ mpc' = [mpc EXCEPT ![t] = "m_add"]
            /\ UNCHANGED mRet
    /\ UNCHANGED <<mSize, mPage, mOffset, mData, mThreads, mRes, mPending,
                   mFlushes, mFault>>

MMapAddStale(t) ==
    /\ mpc[t] = "m_add"
    /\ ~mFault
    /\ LET n == Len(mBuf[t])
           o == mOffset + n IN
        /\ mOffset' = IF o > mSize THEN o ELSE mOffset
        /\ mOff' = [mOff EXCEPT ![t] = o]
        /\ IF o > mSize
           THEN /\ mpc' = [mpc EXCEPT ![t] = "m_wrap"]
                /\ UNCHANGED mRes
           ELSE /\ mpc' = [mpc EXCEPT ![t] = "m_copy"]
                /\ mRes' = Append(mRes, [id |-> mId[t], was |-> mOffset,
                                         start |-> o - n, end |-> o,
                                         wrapped |-> FALSE])
    /\ UNCHANGED <<mSize, mPage, mData, mThreads, mBuf, mId, mRet, mPending,
                   mFlushes, mCalls, mFault>>

\* offset := w.offset.Add(n); if offset > w.size
MMapAdd(t) ==
    /\ mpc[t] = "m_add"
    /\ ~mFault
    /\ LET n == Len(mBuf[t])
           o == mOffset + n IN
        /\ mOffset' = o
        /\ mOff' = [mOff EXCEPT ![t] = o]
        /\ IF o > mSize
           THEN /\ mpc' = [mpc EXCEPT ![t] = "m_wrap"]
                /\ UNCHANGED mRes
           ELSE /\ mpc' = [mpc EXCEPT ![t] = "m_copy"]
                /\ mRes' = Append(mRes, [id |-> mId[t], was |-> mOffset,
                                         start |-> o - n, end |-> o,
                                         wrapped |-> FALSE])
    /\ UNCHANGED <<mSize, mPage, mData, mThreads, mBuf, mId, mRet, mPending,
                   mFlushes, mCalls, mFault>>

MMapWrapZero(t) ==
    /\ mpc[t] = "m_wrap"
    /\ ~mFault
    /\ LET n == Len(mBuf[t]) IN
        /\ mOffset' = 0
        /\ mRes' = Append(mRes, [id |-> mId[t], was |-> mOff[t] - n,
                                 start |-> 0, end |-> n, wrapped |-> TRUE])
        /\ mOff' = [mOff EXCEPT ![t] = n]
    /\ mpc' = [mpc EXCEPT ![t] = "m_copy"]
    /\ UNCHANGED <<mSize, mPage, mData, mThreads, mBuf, mId, mRet, mPending,
                   mFlushes, mCalls, mFault>>

\* w.offset.Store(n); offset = n
MMapWrap(t) ==
    /\ mpc[t] = "m_wrap"
    /\ ~mFault
    /\ LET n == Len(mBuf[t]) IN
        /\ mOffset' = n
        /\ mRes' = Append(mRes, [id |-> mId[t], was |-> mOff[t] - n,
                                 start |-> 0, end |-> n, wrapped |-> TRUE])
        /\ mOff' = [mOff EXCEPT ![t] = n]
    /\ mpc' = [mpc EXCEPT ![t] = "m_copy"]
    /\ UNCHANGED <<mSize, mPage, mData, mThreads, mBuf, mId, mRet, mPending,
                   mFlushes, mCalls, mFault>>

\* start := offset - n; copy(w.data[start:offset], b): the slice expression
\* panics when offset is beyond the region.  Then
\* if start/pageSize != offset/pageSize { go w.syncRange(...) }; return
MMapCopy(t) ==
    /\ mpc[t] = "m_copy"
    /\ ~mFault
    /\ LET n == Len(mBuf[t])
           start == mOff[t] - n
           startPage == start \div mPage
           endPage == mOff[t] \div mPage IN
        IF mOff[t] > mSize
        THEN /\ mFault' = TRUE
             /\ mpc' = [mpc EXCEPT ![t] = "m_panic"]
             /\ UNCHANGED <<mData, mPending, mRet>>
        ELSE /\ mData' = CopyInto(mData, start, mBuf[t])
             /\ mPending' = IF startPage # endPage
                            THEN mPending \cup
                                 {[offset |-> startPage * mPage,
                                   length |-> mPage]}
                            ELSE mPending
             /\ mRet' = [mRet EXCEPT ![t] = n]
             /\ mpc' = [mpc EXCEPT ![t] = "m_done"]
             /\ UNCHANGED mFault
    /\ UNCHANGED <<mSize, mPage, mOffset, mThreads, mBuf, mId, mOff, mRes,
                   mFlushes, mCalls>>

\* w.syncRange(offset, length): if offset+length > w.size
\* { length = w.size - offset }; msync(w.data[offset:offset+length])
SyncRange ==
    /\ ~mFault
    /\ \E r \in mPending :
        /\ mPending' = mPending \ {r}
        /\ mFlushes' = mFlushes \cup
              {[offset |-> r.offset,
                length |-> IF r.offset + r.length > mSize
                           THEN mSize - r.offset ELSE r.length]}
    /\ UNCHANGED <<mSize, mPage, mOffset, mData, mThreads, mpc, mBuf, mId,
                   mOff, mRet, mRes, mCalls, mFault>>

(***************************************************************************)
(* Runs of one MMapWriter: NewMMapWriter(path, size) has succeeded, the    *)
(* file is new (ftruncate fills it with zeros) and the threads call Write. *)
(***************************************************************************)
\* the capacities passed to NewMMapWriter
MCaps == {8, 100}

\* the values of os.Getpagesize()
MPages == {16, 4096}

\* the lengths of the records passed to Write
MLens == {0, 3, 15}

MMapInit(threads) ==
    /\ Unbuilt
    /\ CodecIdle
    /\ LoggerIdle
    /\ RenderIdle
    /\ UltIdle
    /\ \E c \in MCaps :
        /\ mSize = c
        /\ mData = [i \in 0..(c - 1) |-> 0]
    /\ mPage \in MPages
    /\ mOffset = 0
    /\ mThreads = threads
    /\ mpc = [t \in MThreads |-> "idle"]
    /\ mBuf = [t \in MThreads |-> <<>>]
    /\ mId = [t \in MThreads |-> 0]
    /\ mOff = [t \in MThreads |-> 0]
    /\ mRet = [t \in MThreads |-> 0]
    /\ mRes = <<>>
    /\ mPending = {}
    /\ mFlushes = {}
    /\ mCalls = 0
    /\ mFault = FALSE

\* the variables of the ring, of its threads and of the AsyncWriter
queueVars == <<ringVars, active, pc, arg, localVars, ret, out, nextId, putOK,
               gots, reqSize, ctor, pre, asyncVars>>

\* the variables a run of the MMapWriter leaves alone
notMmapVars == <<queueVars, codecVars, loggerVars, renderVars, ultVars>>

\* one thread that calls Write again when its call has returned
MMapSeqInit == MMapInit({1})

MMapSeqCall ==
    /\ \E n \in MLens : MMapWriteCall(1, n, MaxMSeqWrites)
    /\ UNCHANGED notMmapVars

MMapSeqAdd ==
    /\ MMapAdd(1)
    /\ UNCHANGED notMmapVars

MMapSeqWrap ==
    /\ MMapWrap(1)
    /\ UNCHANGED notMmapVars

MMapSeqCopy ==
    /\ MMapCopy(1)
    /\ UNCHANGED notMmapVars

MMapSync ==
    /\ SyncRange
    /\ UNCHANGED notMmapVars

MMapSeqNext ==
    \/ MMapSeqCall
    \/ MMapSeqAdd
    \/ MMapSeqWrap
    \/ MMapSeqCopy
    \/ MMapSync

MMapSeqSpec == MMapSeqInit /\ [][MMapSeqNext]_vars

\* a record longer than the capacity has been passed to Write
Oversize ==
    \/ \E t \in mThreads : Len(mBuf[t]) > mSize
    \/ \E i \in 1..Len(mRes) : mRes[i].end - mRes[i].start > mSize

\* the offset the writer had when the i-th non-empty write was issued, in a
\* run where the calls are made one at a time
OffsetBefore(i) == IF i = 1 THEN 0 ELSE mRes[i - 1].end

\* C11: with Write calls made one at a time and records no longer than the
\* capacity, a write of n bytes at offset o with o+n <= capacity is copied
\* to [o, o+n) and leaves the offset at o+n; otherwise it is copied to
\* [0, n) and leaves the offset at n.  With capacity 100 and 15-byte
\* records the 7th write lands on the bytes of the 1st, offset 15.
C11_SequentialWrite ==
    ~Oversize =>
        /\ ~mFault
        /\ (mpc[1] = "m_done" /\ Len(mBuf[1]) > 0) =>
              LET k == Len(mRes)
                  r == mRes[k]
                  n == Len(mBuf[1])
                  o == OffsetBefore(k) IN
              /\ r.id = mId[1]
              /\ r.was = o
              /\ mRet[1] = n
              /\ IF o + n <= mSize
                 THEN r.start = o /\ r.end = o + n /\ mOffset = o + n
                 ELSE r.start = 0 /\ r.end = n /\ mOffset = n
              /\ \A i \in 1..n : mData[r.start + i - 1] = mBuf[1][i]
              /\ \A j \in DOMAIN mData : j >= 0 /\ j < mSize
        /\ (mSize = 100 /\ Len(mRes) >= 7
              /\ \A i \in 1..7 : mRes[i].end - mRes[i].start = 15) =>
              /\ mRes[7].start = mRes[1].start
              /\ mRes[7].end = mRes[1].end
              /\ mRes[7].end = 15

\* C39: a Write of a record longer than the mapped capacity does not end
\* in a runtime fault (no slice of w.data past the mapped region), and when
\* it has returned the offset is within [0, capacity].
C39_OversizeWrite ==
    \A t \in mThreads :
        Len(mBuf[t]) > mSize
        => /\ mpc[t] # "m_panic"
           /\ mpc[t] = "m_done" => (0 <= mOffset /\ mOffset <= mSize)

\* C26: Write of an empty record returns 0 without an error at once and
\* leaves the offset, every mapped byte and the flushes, started ones and
\* done ones, as they were.
C26_EmptyWrite ==
    [][\A t \in MThreads :
          (mCalls' = mCalls + 1 /\ mId'[t] = mCalls + 1 /\ mBuf'[t] = <<>>)
          => /\ mpc'[t] = "m_done"
             /\ mRet'[t] = 0
             /\ UNCHANGED <<mOffset, mData, mPending, mFlushes, mRes,
                            mFault>>]_vars

\* an empty record was written after a record of 15 bytes
C26_Witness ==
    /\ mpc[1] = "m_done"
    /\ mBuf[1] = <<>>
    /\ mRet[1] = 0
    /\ mCalls = 2
    /\ mOffset = 15
    /\ \A i \in 0..14 : mData[i] = Payload(1, 15)[i + 1]

\* the end of the range a flush request reaches, after syncRange has
\* clipped it to the capacity
FlushEnd(r) == Min(r.offset + r.length, mSize)

\* C27: a write whose range [start, end) spans more than one page triggers a
\* flush that covers every page the write touched, clipped to the capacity,
\* and a write whose range stays inside one page triggers no flush.
C27_FlushTouched ==
    [][\A t \in MThreads :
          (mpc[t] = "m_copy" /\ mpc'[t] = "m_done" /\ mBuf[t] # <<>>)
          => LET start == mOff[t] - Len(mBuf[t])
                 end == mOff[t]
                 firstPage == start \div mPage
                 lastPage == (end - 1) \div mPage IN
              IF firstPage # lastPage
              THEN \E r \in mPending' :
                      /\ r.offset <= firstPage * mPage
                      /\ FlushEnd(r) >= Min((lastPage + 1) * mPage, mSize)
              ELSE mPending' = mPending]_vars

\* seven 15-byte records were written into 100 bytes: the 7th is where the
\* 1st was
C11_Witness ==
    /\ mSize = 100
    /\ mThreads = {1}
    /\ mpc[1] = "m_done"
    /\ Len(mRes) = 7
    /\ \A i \in 1..7 : mRes[i].end - mRes[i].start = 15
    /\ mRes[7].wrapped
    /\ mOffset = 15
    /\ mData[0] = mBuf[1][1]
    /\ mId[1] = 7

(***************************************************************************)
(* Two threads that call Write on the same MMapWriter.                     *)
(***************************************************************************)
MMapConcInit == MMapInit(MThreads)

MMapCall ==
    /\ \E t \in MThreads, n \in MLens : MMapWriteCall(t, n, MaxMWrites)
    /\ UNCHANGED notMmapVars

MMapReserve ==
    /\ \E t \in MThreads : MMapAdd(t)
    /\ UNCHANGED notMmapVars

MMapReset ==
    /\ \E t \in MThreads : MMapWrap(t)
    /\ UNCHANGED notMmapVars

MMapStore ==
    /\ \E t \in MThreads : MMapCopy(t)
    /\ UNCHANGED notMmapVars

MMapNext ==
    \/ MMapCall
    \/ MMapReserve
    \/ MMapReset
    \/ MMapStore
    \/ MMapSync

MMapSpec == MMapConcInit /\ [][MMapNext]_vars

\* the step is the copy of thread t's whole record into the range the call
\* settled on, which lies in the region, and changes no other byte
CopiesWhole(t) ==
    LET n == Len(mBuf[t]) IN
    /\ DOMAIN mData' = DOMAIN mData
    /\ \E i \in 1..Len(mRes) :
          /\ mRes[i].id = mId[t]
          /\ mRes[i].end = mRes[i].start + n
          /\ mRes[i].start \in 0..(mSize - n)
          /\ \A j \in DOMAIN mData :
                mData'[j] = IF mRes[i].start <= j /\ j < mRes[i].end
                            THEN mBuf[t][j - mRes[i].start + 1] ELSE mData[j]

\* C12: with records no longer than the capacity, under any interleaving
\* every Write copies its whole record into one contiguous range inside
\* [0, capacity): no call panics, every range a call settles on lies in the
\* region and has the length of the record, and the region changes only by
\* such copies.
C12_Contiguous ==
    /\ [](~Oversize =>
            /\ ~mFault
            /\ DOMAIN mData = 0..(mSize - 1)
            /\ \A i \in 1..Len(mRes) :
                  0 <= mRes[i].start /\ mRes[i].end <= mSize)
    /\ [][(~Oversize /\ mData' # mData) =>
            \E t \in mThreads :
                /\ mpc[t] = "m_copy"
                /\ mpc'[t] = "m_done"
                /\ mRet'[t] = Len(mBuf[t])
                /\ CopiesWhole(t)]_vars

\* a record was copied to the start of the region after a wrap while the
\* other thread was inside its own call
C12_Witness ==
    /\ mThreads = MThreads
    /\ ~Oversize
    /\ mpc[1] = "m_done"
    /\ mpc[2] = "m_copy"
    /\ \E i \in 1..Len(mRes) :
          /\ mRes[i].id = mId[1]
          /\ mRes[i].wrapped
          /\ \A k \in 1..Len(mBuf[1]) : mData[k - 1] = mBuf[1][k]

\* the i-th and the j-th range share a byte
Overlap(i, j) == mRes[i].start < mRes[j].end /\ mRes[j].start < mRes[i].end

\* C13: the ranges given to Write calls are pairwise disjoint as long as no
\* reservation exceeds the capacity: two ranges overlap only when a
\* reservation wrapped after the first of them was given, up to and
\* including the second.
C13_DisjointUntilWrap ==
    \A i, j \in 1..Len(mRes) :
        (i < j /\ Overlap(i, j)) =>
            \E k \in (i + 1)..j : mRes[k].wrapped

\* two calls in flight at the same time hold overlapping ranges
C13_Witness ==
    /\ mpc[1] = "m_copy"
    /\ mpc[2] = "m_copy"
    /\ ~Oversize
    /\ \E i, j \in 1..Len(mRes) :
          /\ i < j
          /\ {mRes[i].id, mRes[j].id} = {mId[1], mId[2]}
          /\ Overlap(i, j)
          /\ \E k \in (i + 1)..j : mRes[k].wrapped

(***************************************************************************)
(* The wire format.  A byte slice is a sequence of numbers 0..255; a       *)
(* position pos of the Go code (0-based) is the number of bytes before it. *)
(* A uint64 is kept as the integer it is when read as an int64; the model  *)
(* holds the values of 32 bits.                                            *)
(***************************************************************************)
\* 2^31 - 1, the largest number of the model
MaxInt32 == (2 ^ 30 - 1) + 2 ^ 30

\* b[lo:hi]
Slice(b, lo, hi) == SubSeq(b, lo + 1, hi)

\* b[p]
At(b, p) == b[p + 1]

\* binary.LittleEndian.PutUint32 / PutUint64 of v >= 0: n bytes, lowest first
PutLE(v, n) ==
    [i \in 1..n |-> IF i <= 4 THEN (v \div (256 ^ (i - 1))) % 256 ELSE 0]

\* the low 32 bits of the two's complement image of v, highest byte first
U32BE(v) ==
    LET u == IF v < 0 THEN (v + MaxInt32) + 1 ELSE v
        top == IF v < 0 THEN 128 ELSE 0 IN
    <<top + ((u \div (256 ^ 3)) % 256), (u \div (256 ^ 2)) % 256,
      (u \div 256) % 256, u % 256>>

\* byte(f.num >> 56) ... byte(f.num)
U64BE(v) ==
    LET ext == IF v < 0 THEN 255 ELSE 0 IN
    <<ext, ext, ext, ext>> \o U32BE(v)

\* byte(n >> 8), byte(n)
U16BE(n) == <<(n \div 256) % 256, n % 256>>

\* writeBinaryHeader: magic, version, level, sequence, timestamp
Header(level, seq, now) ==
    PutLE(MagicHeader, 4) \o <<Version, level>> \o PutLE(seq, 8)
        \o PutLE(now, 8)

\* Logger.logDirect from the header on: the bytes passed to the sink
EncodeDirect(level, seq, now, msg) ==
    LET hdr == Header(level, seq, now)
        pos == Len(hdr)
        maxMsg == IF DirectBufSize - pos - 1 < 0 THEN 0
                  ELSE DirectBufSize - pos - 1
        msgLen == Min(Min(Len(msg), maxMsg), MaxMsgLen) IN
    IF msgLen > 0 /\ pos + 1 + msgLen <= DirectBufSize
    THEN hdr \o <<msgLen>> \o SubSeq(msg, 1, msgLen)
    ELSE hdr \o <<msgLen>>

\* encodeField that does not cut a string or blob value to the room left
EncodeFieldUnclamped(avail, f) ==
    IF avail < 10 THEN <<>>
    ELSE
    LET keyLen == Min(Min(Len(f.key), MaxKeyLen), avail - 2)
        kt == <<keyLen>> \o SubSeq(f.key, 1, keyLen) \o <<f.type>>
        rest == avail - Len(kt)
        strLen == Min(Len(f.str), MaxValueLen)
        dataLen == Min(f.num, MaxValueLen) IN
    CASE f.type \in {FieldTypeInt, FieldTypeUint, FieldTypeBool,
                     FieldTypeFloat64} ->
            IF rest < 8 THEN kt ELSE kt \o U64BE(f.num)
      [] f.type = FieldTypeFloat32 ->
            IF rest < 4 THEN kt ELSE kt \o U32BE(f.num)
      [] f.type = FieldTypeString ->
            IF rest < 2 THEN kt
            ELSE kt \o U16BE(strLen) \o SubSeq(f.str, 1, strLen)
      [] f.type = FieldTypeBytes ->
            IF rest < 2 THEN kt
            ELSE kt \o U16BE(dataLen) \o SubSeq(f.str, 1, dataLen)
      [] OTHER -> kt

\* encodeField(buf, f) for a buf of avail bytes: the bytes written, whose
\* number is the result
EncodeField(avail, f) ==
    IF avail < 10 THEN <<>>
    ELSE
    LET keyLen == Min(Min(Len(f.key), MaxKeyLen), avail - 2)
        kt == <<keyLen>> \o SubSeq(f.key, 1, keyLen) \o <<f.type>>
        rest == avail - Len(kt)
        strLen == Min(Min(Len(f.str), rest - 2), MaxValueLen)
        dataLen == Min(Min(f.num, rest - 2), MaxValueLen) IN
    CASE f.type \in {FieldTypeInt, FieldTypeUint, FieldTypeBool,
                     FieldTypeFloat64} ->
            IF rest < 8 THEN kt ELSE kt \o U64BE(f.num)
      [] f.type = FieldTypeFloat32 ->
            IF rest < 4 THEN kt ELSE kt \o U32BE(f.num)
      [] f.type = FieldTypeString ->
            IF rest < 2 THEN kt
            ELSE kt \o U16BE(strLen) \o SubSeq(f.str, 1, strLen)
      [] f.type = FieldTypeBytes ->
            IF rest < 2 THEN kt
            ELSE kt \o U16BE(dataLen) \o SubSeq(f.str, 1, dataLen)
      [] OTHER -> kt

RECURSIVE EncodeLoop(_, _, _, _)
\* for i := 0; i < fieldCount && pos < len(buf)-64; i++
\*     { pos += encodeField(buf[pos:], &fields[i]) }
EncodeLoop(buf, fields, i, fieldCount) ==
    IF i < fieldCount /\ Len(buf) < PoolBufSize - FieldMargin
    THEN EncodeLoop(buf \o EncodeField(PoolBufSize - Len(buf), fields[i + 1]),
                    fields, i + 1, fieldCount)
    ELSE buf

\* StructuredLogger.logFields from the header on: the bytes passed to the
\* sink
EncodeFields(level, seq, now, msg, fields) ==
    LET msgLen == Min(Len(msg), MaxMsgLen)
        fieldCount == Min(Len(fields), MaxFieldCount) IN
    EncodeLoop(Header(level, seq, now) \o <<msgLen>> \o SubSeq(msg, 1, msgLen)
                   \o <<fieldCount>>,
               fields, 0, fieldCount)

(***************************************************************************)
(* The reader: the parse of TerminalWriter.Write.                          *)
(***************************************************************************)
\* uint64(b[p]) | uint64(b[p+1])<<8 | ..., in the 31 bits the model holds
GetLE(b, p) ==
    At(b, p) + At(b, p + 1) * 256 + At(b, p + 2) * (256 ^ 2)
        + (At(b, p + 3) % 128) * (256 ^ 3)

\* uint32(b[p])<<24 | ... | uint32(b[p+3]), read as a signed number
GetBE32(b, p) ==
    LET u == (At(b, p) % 128) * (256 ^ 3) + At(b, p + 1) * (256 ^ 2)
                 + At(b, p + 2) * 256 + At(b, p + 3) IN
    IF At(b, p) >= 128 THEN (u - MaxInt32) - 1 ELSE u

\* uint64(b[p])<<56 | ... | uint64(b[p+7]), in the 32 bits the model holds
GetBE64(b, p) == GetBE32(b, p + 4)

\* uint16(b[p])<<8 | uint16(b[p+1])
GetBE16(b, p) == At(b, p) * 256 + At(b, p + 1)

\* a field value that could not be decoded: rendered as '?'
Unknown(pos) == [ok |-> FALSE, n |-> 0, s |-> <<>>, pos |-> pos]

\* decodeFieldValueBuf(buf, b, pos, fieldType): the value and the new pos
DecodeValue(b, pos, type) ==
    CASE type \in {FieldTypeInt, FieldTypeUint, FieldTypeFloat64} ->
            IF Len(b) - pos < 8 THEN Unknown(pos + 8)
            ELSE [ok |-> TRUE, n |-> GetBE64(b, pos), s |-> <<>>,
                  pos |-> pos + 8]
      [] type = FieldTypeBool ->
            IF Len(b) - pos < 8 THEN Unknown(pos + 8)
            ELSE [ok |-> TRUE, n |-> IF GetBE64(b, pos) = 0 THEN 0 ELSE 1,
                  s |-> <<>>, pos |-> pos + 8]
      [] type = FieldTypeFloat32 ->
            IF Len(b) - pos < 4 THEN Unknown(pos + 4)
            ELSE [ok |-> TRUE, n |-> GetBE32(b, pos), s |-> <<>>,
                  pos |-> pos + 4]
      [] type \in {FieldTypeString, FieldTypeBytes} ->
            IF Len(b) - pos < 2 THEN Unknown(pos + 2)
            ELSE LET slen == GetBE16(b, pos) IN
                 IF Len(b) - pos < 2 + slen THEN Unknown(pos + 2 + slen)
                 ELSE [ok |-> TRUE, n |-> 0,
                       s |-> Slice(b, pos + 2, pos + 2 + slen),
                       pos |-> pos + 2 + slen]
      [] OTHER -> Unknown(pos)

RECURSIVE DecodeLoop(_, _, _, _, _)
\* for i := 0; i < fieldCount && pos < len(b); i++ { key, type, value }
DecodeLoop(b, pos, i, fieldCount, acc) ==
    IF ~(i < fieldCount /\ pos < Len(b)) THEN acc
    ELSE
    LET keyLen == At(b, pos)
        keyStart == pos + 1
        keyEnd == keyStart + keyLen IN
    IF keyEnd > Len(b) \/ keyEnd >= Len(b) THEN acc
    ELSE
    LET type == At(b, keyEnd)
        v == DecodeValue(b, keyEnd + 1, type) IN
    DecodeLoop(b, v.pos, i + 1, fieldCount,
               Append(acc, [key |-> Slice(b, keyStart, keyEnd), type |-> type,
                            ok |-> v.ok, n |-> v.n, s |-> v.s]))

\* a record of which nothing was decoded
NoRecord(err) ==
    [err |-> err, level |-> 0, seq |-> 0, now |-> 0, msg |-> <<>>,
     fieldCount |-> 0, fields |-> <<>>]

\* TerminalWriter.Write(b): the error, or what it reads from b; the
\* sequence number is read the way the timestamp is
Decode(b) ==
    IF Len(b) < HeaderSize THEN NoRecord("too short")
    ELSE IF Slice(b, 0, 4) # PutLE(MagicHeader, 4) THEN NoRecord("magic")
    ELSE
    LET hasMsg == HeaderSize < Len(b)
        msgLen == IF hasMsg THEN At(b, HeaderSize) ELSE 0
        p1 == IF hasMsg THEN HeaderSize + 1 ELSE HeaderSize
        msgOK == hasMsg /\ p1 + msgLen <= Len(b)
        msgEnd == IF msgOK THEN p1 + msgLen ELSE p1
        hasFields == msgEnd < Len(b)
        fieldCount == IF hasFields THEN At(b, msgEnd) ELSE 0 IN
    [err |-> "none", level |-> At(b, 5), seq |-> GetLE(b, 6),
     now |-> GetLE(b, 14),
     msg |-> IF msgOK THEN Slice(b, p1, msgEnd) ELSE <<>>,
     fieldCount |-> fieldCount,
     fields |-> IF hasFields
                THEN DecodeLoop(b, msgEnd + 1, 0, fieldCount, <<>>)
                ELSE <<>>]

(***************************************************************************)
(* One record through the encoder and the reader: a call of Logger (path   *)
(* "direct", no fields) or of StructuredLogger (path "fields") that passed *)
(* the level check, with the sequence number and the clock reading it got. *)
(***************************************************************************)
\* "key"
KeyBytes == <<107, 101, 121>>

\* the field constructors Int, Uint, Float32, Float64, String, Bool, Bytes
Int64(key, val) ==
    [key |-> key, type |-> FieldTypeInt, num |-> val, str |-> <<>>]

Uint(key, val) ==
    [key |-> key, type |-> FieldTypeUint, num |-> val, str |-> <<>>]

Float32(key, bits) ==
    [key |-> key, type |-> FieldTypeFloat32, num |-> bits, str |-> <<>>]

Float64(key, bits) ==
    [key |-> key, type |-> FieldTypeFloat64, num |-> bits, str |-> <<>>]

String(key, val) ==
    [key |-> key, type |-> FieldTypeString, num |-> 0, str |-> val]

Bool(key, val) ==
    [key |-> key, type |-> FieldTypeBool, num |-> IF val THEN 1 ELSE 0,
     str |-> <<>>]

Bytes(key, val) ==
    [key |-> key, type |-> FieldTypeBytes, num |-> Len(val), str |-> val]

\* one field of every type
MixedFields ==
    <<Int64(KeyBytes, -5), Uint(KeyBytes, 70000), Float32(KeyBytes, 1069547520),
      Float64(KeyBytes, 12345), String(KeyBytes, Payload(1, 5)),
      Bool(KeyBytes, TRUE), Bytes(KeyBytes, Payload(9, 3))>>

\* n fields Int64("key", i)
IntFields(n) == [i \in 1..n |-> Int64(KeyBytes, i - 1)]

\* n fields String("key", v) with v of m bytes
StringFields(n, m) == [i \in 1..n |-> String(KeyBytes, Payload(i, m))]

\* the field lists of the calls
CodecFieldLists ==
    {<<>>, MixedFields, IntFields(1), IntFields(72), IntFields(100),
     IntFields(MaxFieldCount), IntFields(MaxCodecFields),
     StringFields(50, 100), StringFields(1, MaxCodecValue),
     <<Bytes(KeyBytes, Payload(1, MaxCodecValue))>>,
     StringFields(8, 100) \o <<String(Payload(1, MaxKeyLen), Payload(1, 5))>>,
     <<String(Payload(1, MaxKeyLen), Payload(1, 5))>>,
     <<String(Payload(1, MaxKeyLen + 45), Payload(1, 5))>>}

\* the message lengths of the calls
CodecMsgLens == {0, 5, 233, 234, MaxMsgLen, MaxMsgLen + 1, MaxCodecMsg}

\* the clock readings
Times == {0, 77777}

\* the sequence numbers the calls got
CodecSeqs == {1, 300}

Levels == LevelDebug..LevelFatal

CodecCalls ==
    [path : {"fields"}, level : Levels, seq : CodecSeqs, now : Times,
     msg : {Payload(1, n) : n \in CodecMsgLens}, fields : CodecFieldLists]
    \cup
    [path : {"direct"}, level : Levels, seq : CodecSeqs, now : Times,
     msg : {Payload(1, n) : n \in CodecMsgLens}, fields : {<<>>}]

CodecInit ==
    /\ Unbuilt
    /\ MmapIdle
    /\ LoggerIdle
    /\ RenderIdle
    /\ UltIdle
    /\ cCall \in CodecCalls
    /\ cpc = "input"
    /\ cOut = <<>>
    /\ cDec = <<>>

\* the variables a run of the encoder and the reader leaves alone
notCodecVars == <<queueVars, mmapVars, loggerVars, renderVars, ultVars>>

\* logDirect / logFields build the record and pass it to the sink
CodecEncode ==
    /\ cpc = "input"
    /\ cOut' = IF cCall.path = "direct"
               THEN EncodeDirect(cCall.level, cCall.seq, cCall.now, cCall.msg)
               ELSE EncodeFields(cCall.level, cCall.seq, cCall.now, cCall.msg,
                                 cCall.fields)
    /\ cpc' = "encoded"
    /\ UNCHANGED <<cCall, cDec, notCodecVars>>

\* the sink is a TerminalWriter: Write(b) reads the record
CodecDecode ==
    /\ cpc = "encoded"
    /\ cDec' = Decode(cOut)
    /\ cpc' = "decoded"
    /\ UNCHANGED <<cCall, cOut, notCodecVars>>

CodecNext ==
    \/ CodecEncode
    \/ CodecDecode

CodecSpec == CodecInit /\ [][CodecNext]_vars

\* what the reader gives for field f when nothing of it was lost
ExpectedField(f) ==
    [key |-> f.key, type |-> f.type, ok |-> TRUE,
     n |-> IF f.type \in {FieldTypeString, FieldTypeBytes} THEN 0
           ELSE f.num,
     s |-> IF f.type \in {FieldTypeString, FieldTypeBytes} THEN f.str
           ELSE <<>>]

\* what the reader gives for call c when nothing of it was lost
Expected(c) ==
    [err |-> "none", level |-> c.level, seq |-> c.seq, now |-> c.now,
     msg |-> c.msg, fieldCount |-> Len(c.fields),
     fields |-> [i \in 1..Len(c.fields) |-> ExpectedField(c.fields[i])]]

\* the call is within the limits of the wire format
WithinLimits(c) ==
    /\ Len(c.msg) <= MaxMsgLen
    /\ Len(c.fields) <= MaxFieldCount
    /\ \A i \in 1..Len(c.fields) :
          /\ Len(c.fields[i].key) <= MaxKeyLen
          /\ Len(c.fields[i].str) <= MaxValueLen

\* C18: for a record with a message of at most 255 bytes, at most 255
\* fields, keys of at most 255 bytes and string or blob values of at most
\* 65535 bytes, the reader gets back from the encoded bytes the level, the
\* sequence number, the message and the list of fields.
C18_RoundTrip ==
    (cpc = "decoded" /\ cCall.path = "fields" /\ WithinLimits(cCall))
        => cDec = Expected(cCall)

\* C19: a message longer than 255 bytes is encoded, by Logger and by
\* StructuredLogger, as a record whose decoded message is the first 255
\* bytes of the message, without an error.
C19_MessagePrefix ==
    (cpc = "decoded" /\ Len(cCall.msg) > MaxMsgLen)
        => /\ cDec.err = "none"
           /\ cDec.msg = SubSeq(cCall.msg, 1, MaxMsgLen)

\* C20: from the encoding of a record with more than 255 fields exactly
\* 255 fields are decoded, the first 255 in the order they were given.
C20_FieldCap ==
    (cpc = "decoded" /\ Len(cCall.fields) > MaxFieldCount)
        => /\ Len(cDec.fields) = MaxFieldCount
           /\ \A i \in 1..MaxFieldCount :
                 cDec.fields[i] = ExpectedField(cCall.fields[i])

RECURSIVE EntriesFrom(_, _)
\* the number of whole field entries (key length, key, type, value) that b
\* holds from pos on
EntriesFrom(b, pos) ==
    IF pos >= Len(b) THEN 0
    ELSE
    LET typePos == pos + 1 + At(b, pos) IN
    IF typePos >= Len(b) THEN 0
    ELSE
    LET v == DecodeValue(b, typePos + 1, At(b, typePos)) IN
    IF ~v.ok THEN 0 ELSE 1 + EntriesFrom(b, v.pos)

\* where the field_count byte of a record stands
CountPos(b) == HeaderSize + 1 + At(b, HeaderSize)

\* C35: in a record of StructuredLogger the field_count byte is the number
\* of field entries encoded after it, also when fields were dropped for
\* lack of room in the 1024-byte buffer.
C35_CountMatches ==
    (cpc \in {"encoded", "decoded"} /\ cCall.path = "fields")
        => At(cOut, CountPos(cOut)) = EntriesFrom(cOut, CountPos(cOut) + 1)

\* the length of the buffer the call encodes into
BufLen(c) == IF c.path = "direct" THEN DirectBufSize ELSE PoolBufSize

C22_Layout ==
    cpc \in {"encoded", "decoded"} =>
        /\ Len(cOut) >= HeaderSize + 1
        /\ Slice(cOut, 0, HeaderSize)
               = Header(cCall.level, cCall.seq, cCall.now)
        /\ LET msgLen == At(cOut, HeaderSize) IN
           /\ Len(cOut) >= HeaderSize + 1 + msgLen + 1
           /\ Slice(cOut, HeaderSize + 1, HeaderSize + 1 + msgLen)
                  = SubSeq(cCall.msg, 1, msgLen)
           /\ At(cOut, HeaderSize + 1 + msgLen)
                  = Min(Len(cCall.fields), MaxFieldCount)

(***************************************************************************)
(* Logger and StructuredLogger: threads that log through one Logger while  *)
(* SetLevel and SetWriter are called.  The atomic operations of a log call *)
(* are one step each: the load of the level, sequence.Add, the load of the *)
(* writer; the call of the sink is a step, and so is os.Exit.  SetLevel    *)
(* stores (state &^ 0xFF) | level where the high bits of state are always  *)
(* zero, so its load does not matter and it is the step of its store.      *)
(***************************************************************************)
\* the sinks passed to SetWriter
Sinks == {"A", "B"}

\* the readings of the clock during the run
LogTimes == {77777}

\* the levels of the log calls, and the levels passed to SetLevel
CallLevels == {LevelInfo, LevelFatal}

SetLevels == {LevelWarn}

\* thread 1 logs through the Logger, thread 2 through a StructuredLogger
\* that embeds it
PathOf(t) == IF t = 1 THEN "direct" ELSE "fields"

\* New(): l.SetLevel(LevelInfo); l.SetWriter(StdoutWriter)
LoggerInit ==
    /\ Unbuilt
    /\ MmapIdle
    /\ CodecIdle
    /\ RenderIdle
    /\ UltIdle
    /\ lgLevel = LevelInfo
    /\ lgSinks = <<"stdout">>
    /\ lgWriter = 1
    /\ lgSeq = 0
    /\ lgpc = [t \in LThreads |-> "idle"]
    /\ lgCall = [t \in LThreads |-> NoCall]
    /\ lgMin = [t \in LThreads |-> -1]
    /\ lgNum = [t \in LThreads |-> 0]
    /\ lgBuf = [t \in LThreads |-> <<>>]
    /\ lgW = [t \in LThreads |-> 0]
    /\ lgEpoch = [t \in LThreads |-> 0]
    /\ lgOut = <<>>
    /\ lgCalls = 0
    /\ lgSets = 0
    /\ lgExit = 0

\* the variables a run of the Logger leaves alone
notLoggerVars == <<queueVars, mmapVars, codecVars, renderVars, ultVars>>

\* l.SetLevel(level)
SetLevel ==
    /\ lgExit = 0
    /\ lgSets < MaxSets
    /\ lgSets' = lgSets + 1
    /\ lgLevel' \in SetLevels
    /\ UNCHANGED <<lgWriter, lgSinks, lgSeq, lgpc, lgCall, lgMin, lgNum,
                   lgBuf, lgW, lgEpoch, lgOut, lgCalls, lgExit, notLoggerVars>>

\* l.SetWriter(w): atomic.StorePointer(&l.writer, unsafe.Pointer(&w))
SetWriter ==
    /\ lgExit = 0
    /\ lgSets < MaxSets
    /\ lgSets' = lgSets + 1
    /\ \E w \in Sinks : lgSinks' = Append(lgSinks, w)
    /\ lgWriter' = Len(lgSinks) + 1
    /\ UNCHANGED <<lgLevel, lgSeq, lgpc, lgCall, lgMin, lgNum, lgBuf, lgW,
                   lgEpoch, lgOut, lgCalls, lgExit, notLoggerVars>>

\* l.Debug(msg) ... l.Fatal(msg) of Logger (path "direct") and
\* l.Debug(msg, fields...) ... l.Fatal(msg, fields...) of StructuredLogger
LogCallOf(limit, levels) ==
    /\ lgExit = 0
    /\ lgCalls < limit
    /\ lgCalls' = lgCalls + 1
    /\ \E t \in LThreads, level \in levels :
        /\ lgpc[t] \in {"idle", "l_done"}
        /\ lgpc' = [lgpc EXCEPT ![t] = "l_check"]
        /\ lgCall' = [lgCall EXCEPT ![t] =
                        [no |-> lgCalls + 1, level |-> level,
                         path |-> PathOf(t), msg |-> <<lgCalls + 1>>,
                         fields |-> IF PathOf(t) = "fields"
                                    THEN IntFields(1) ELSE <<>>]]
        /\ lgMin' = [lgMin EXCEPT ![t] = -1]
        /\ lgNum' = [lgNum EXCEPT ![t] = 0]
        /\ lgBuf' = [lgBuf EXCEPT ![t] = <<>>]
        /\ lgW' = [lgW EXCEPT ![t] = 0]
        /\ lgEpoch' = [lgEpoch EXCEPT ![t] = lgWriter]
    /\ UNCHANGED <<lgLevel, lgWriter, lgSinks, lgSeq, lgOut, lgSets, lgExit,
                   notLoggerVars>>

LogCall == LogCallOf(MaxLogs, CallLevels)

\* what follows the return of logDirect / logFields: os.Exit in Fatal
AfterLog(t) == IF lgCall[t].level = LevelFatal THEN "l_exit" ELSE "l_done"

LogCheckStrict(t) ==
    /\ lgExit = 0
    /\ lgpc[t] = "l_check"
    /\ lgMin' = [lgMin EXCEPT ![t] = lgLevel]
    /\ lgpc' = [lgpc EXCEPT ![t] =
                  IF lgLevel < lgCall[t].level THEN "l_seq" ELSE AfterLog(t)]
    /\ UNCHANGED <<lgLevel, lgWriter, lgSinks, lgSeq, lgCall, lgNum, lgBuf,
                   lgW, lgEpoch, lgOut, lgCalls, lgSets, lgExit>>

\* if !l.shouldLog(level) { return }: Level(l.state.Load()&0xFF) <= level
LogCheck(t) ==
    /\ lgExit = 0
    /\ lgpc[t] = "l_check"
    /\ lgMin' = [lgMin EXCEPT ![t] = lgLevel]
    /\ lgpc' = [lgpc EXCEPT ![t] =
                  IF lgLevel <= lgCall[t].level THEN "l_seq" ELSE AfterLog(t)]
    /\ UNCHANGED <<lgLevel, lgWriter, lgSinks, lgSeq, lgCall, lgNum, lgBuf,
                   lgW, lgEpoch, lgOut, lgCalls, lgSets, lgExit>>

LogSeqStale(t) ==
    /\ lgExit = 0
    /\ lgpc[t] = "l_seq"
    /\ UNCHANGED lgSeq
    /\ lgNum' = [lgNum EXCEPT ![t] = lgSeq + 1]
    /\ \E now \in LogTimes :
        lgBuf' = [lgBuf EXCEPT ![t] =
            IF lgCall[t].path = "direct"
            THEN EncodeDirect(lgCall[t].level, lgSeq + 1, now, lgCall[t].msg)
            ELSE EncodeFields(lgCall[t].level, lgSeq + 1, now, lgCall[t].msg,
                              lgCall[t].fields)]
    /\ lgpc' = [lgpc EXCEPT ![t] = "l_get"]
    /\ UNCHANGED <<lgLevel, lgWriter, lgSinks, lgCall, lgMin, lgW, lgEpoch,
                   lgOut, lgCalls, lgSets, lgExit>>

\* seq := l.sequence.Add(1); now := time.Now(); and the record is built in
\* the call's own buffer
LogSeq(t) ==
    /\ lgExit = 0
    /\ lgpc[t] = "l_seq"
    /\ lgSeq' = lgSeq + 1
    /\ lgNum' = [lgNum EXCEPT ![t] = lgSeq + 1]
    /\ \E now \in LogTimes :
        lgBuf' = [lgBuf EXCEPT ![t] =
            IF lgCall[t].path = "direct"
            THEN EncodeDirect(lgCall[t].level, lgSeq + 1, now, lgCall[t].msg)
            ELSE EncodeFields(lgCall[t].level, lgSeq + 1, now, lgCall[t].msg,
                              lgCall[t].fields)]
    /\ lgpc' = [lgpc EXCEPT ![t] = "l_get"]
    /\ UNCHANGED <<lgLevel, lgWriter, lgSinks, lgCall, lgMin, lgW, lgEpoch,
                   lgOut, lgCalls, lgSets, lgExit>>

LogGetWriterFirst(t) ==
    /\ lgExit = 0
    /\ lgpc[t] = "l_get"
    /\ lgW' = [lgW EXCEPT ![t] = 1]
    /\ lgpc' = [lgpc EXCEPT ![t] = "l_call"]
    /\ UNCHANGED <<lgLevel, lgWriter, lgSinks, lgSeq, lgCall, lgMin, lgNum,
                   lgBuf, lgEpoch, lgOut, lgCalls, lgSets, lgExit>>

\* w := l.getWriter(): *(*Writer)(atomic.LoadPointer(&l.writer))
LogGetWriter(t) ==
    /\ lgExit = 0
    /\ lgpc[t] = "l_get"
    /\ lgW' = [lgW EXCEPT ![t] = lgWriter]
    /\ lgpc' = [lgpc EXCEPT ![t] = "l_call"]
    /\ UNCHANGED <<lgLevel, lgWriter, lgSinks, lgSeq, lgCall, lgMin, lgNum,
                   lgBuf, lgEpoch, lgOut, lgCalls, lgSets, lgExit>>

\* a sink that gets each record before the records it got earlier
LogDispatchFront(t) ==
    /\ lgExit = 0
    /\ lgpc[t] = "l_call"
    /\ lgOut' = <<[handle |-> lgW[t], sink |-> lgSinks[lgW[t]],
                   data |-> lgBuf[t], call |-> lgCall[t].no,
                   epoch |-> lgEpoch[t], thread |-> t]>> \o lgOut
    /\ lgpc' = [lgpc EXCEPT ![t] = AfterLog(t)]
    /\ UNCHANGED <<lgLevel, lgWriter, lgSinks, lgSeq, lgCall, lgMin, lgNum,
                   lgBuf, lgW, lgEpoch, lgCalls, lgSets, lgExit>>

\* w(buf[:pos]), and the return of logDirect / logFields; the record the
\* sink got is kept with the thread that made the call
LogDispatch(t) ==
    /\ lgExit = 0
    /\ lgpc[t] = "l_call"
    /\ lgOut' = Append(lgOut, [handle |-> lgW[t], sink |-> lgSinks[lgW[t]],
                               data |-> lgBuf[t], call |-> lgCall[t].no,
                               epoch |-> lgEpoch[t], thread |-> t])
    /\ lgpc' = [lgpc EXCEPT ![t] = AfterLog(t)]
    /\ UNCHANGED <<lgLevel, lgWriter, lgSinks, lgSeq, lgCall, lgMin, lgNum,
                   lgBuf, lgW, lgEpoch, lgCalls, lgSets, lgExit>>

FatalExitEarly(t) ==
    /\ lgExit = 0
    /\ lgpc[t] \in {"l_call", "l_exit"}
    /\ lgCall[t].level = LevelFatal
    /\ lgExit' = 1
    /\ lgpc' = [lgpc EXCEPT ![t] = "exited"]
    /\ UNCHANGED <<lgLevel, lgWriter, lgSinks, lgSeq, lgCall, lgMin, lgNum,
                   lgBuf, lgW, lgEpoch, lgOut, lgCalls, lgSets>>

\* os.Exit(1) in Fatal: the process is gone, no thread takes another step
FatalExit(t) ==
    /\ lgExit = 0
    /\ lgpc[t] = "l_exit"
    /\ lgExit' = 1
    /\ lgpc' = [lgpc EXCEPT ![t] = "exited"]
    /\ UNCHANGED <<lgLevel, lgWriter, lgSinks, lgSeq, lgCall, lgMin, lgNum,
                   lgBuf, lgW, lgEpoch, lgOut, lgCalls, lgSets>>

\* the steps of thread t inside a log call
LogStep(t) ==
    \/ LogCheck(t)
    \/ LogSeq(t)
    \/ LogGetWriter(t)
    \/ LogDispatch(t)
    \/ FatalExit(t)

LogShouldLog ==
    /\ \E t \in LThreads : LogCheck(t)
    /\ UNCHANGED notLoggerVars

LogSequence ==
    /\ \E t \in LThreads : LogSeq(t)
    /\ UNCHANGED notLoggerVars

LogLoadWriter ==
    /\ \E t \in LThreads : LogGetWriter(t)
    /\ UNCHANGED notLoggerVars

LogWrite ==
    /\ \E t \in LThreads : LogDispatch(t)
    /\ UNCHANGED notLoggerVars

LogExit ==
    /\ \E t \in LThreads : FatalExit(t)
    /\ UNCHANGED notLoggerVars

LoggerNext ==
    \/ SetLevel
    \/ SetWriter
    \/ LogCall
    \/ LogShouldLog
    \/ LogSequence
    \/ LogLoadWriter
    \/ LogWrite
    \/ LogExit

LoggerSpec == LoggerInit /\ [][LoggerNext]_vars

\* the scheduling the Go runtime gives: a thread that can take a step of
\* its log call eventually takes one
LoggerFairSpec ==
    /\ LoggerInit
    /\ [][LoggerNext]_vars
    /\ \A t \in LThreads : WF_vars(LogStep(t) /\ UNCHANGED notLoggerVars)

\* the calls of sinks made for log call number k
Dispatches(k) == {i \in 1..Len(lgOut) : lgOut[i].call = k}

\* thread t has finished the steps of logDirect / logFields of its call
Returned(t) == lgpc[t] \in {"l_done", "l_exit", "exited"}

\* C14: a log call whose level is below the minimum that is configured
\* when the call checks it calls no sink and takes no sequence number, and
\* its check leaves the counter and the sinks alone; a call at or above the
\* minimum has, when it returns, called exactly one sink, the one it found
\* set, exactly once, with one record that carries the call's level,
\* number and message.
C14_LevelFilter ==
    /\ [](\A t \in LThreads : Returned(t) =>
            IF lgCall[t].level < lgMin[t]
            THEN /\ Dispatches(lgCall[t].no) = {}
                 /\ lgNum[t] = 0
            ELSE /\ Cardinality(Dispatches(lgCall[t].no)) = 1
                 /\ \A i \in Dispatches(lgCall[t].no) :
                       /\ lgOut[i].handle = lgW[t]
                       /\ lgOut[i].sink = lgSinks[lgW[t]]
                       /\ Decode(lgOut[i].data).err = "none"
                       /\ Decode(lgOut[i].data).level = lgCall[t].level
                       /\ Decode(lgOut[i].data).seq = lgNum[t]
                       /\ Decode(lgOut[i].data).msg = lgCall[t].msg)
    /\ [][\A t \in LThreads :
            (lgpc[t] = "l_check" /\ lgpc'[t] # "l_check"
                /\ lgCall[t].level < lgLevel)
            => /\ lgpc'[t] \in {"l_done", "l_exit"}
               /\ UNCHANGED <<lgSeq, lgOut, lgLevel, lgWriter, lgSinks>>]_vars

\* an Info call was filtered out at Warn and another, made at exactly the
\* minimum Info, reached its sink
C14_Witness ==
    /\ lgLevel = LevelWarn
    /\ lgpc[1] = "l_done"
    /\ lgCall[1].level = LevelInfo
    /\ lgMin[1] = LevelWarn
    /\ lgpc[2] = "l_done"
    /\ lgCall[2].level = LevelInfo
    /\ lgMin[2] = LevelInfo
    /\ Len(lgOut) = 1
    /\ lgSeq = 1

\* the sequence numbers of the records the sinks have received
OutSeqs == {Decode(lgOut[i].data).seq : i \in 1..Len(lgOut)}

\* the threads that hold a record they have not passed to a sink yet
Holding == {t \in LThreads : lgpc[t] \in {"l_get", "l_call"}}

\* C15: whatever the interleaving of the threads, no two records carry the
\* same sequence number, and the numbers taken by the k records built so
\* far are exactly 1..k; when no record is on its way to a sink, the
\* records the sinks received carry exactly the numbers 1..k.
C15_DistinctSeq ==
    /\ \A i, j \in 1..Len(lgOut) :
          Decode(lgOut[i].data).seq = Decode(lgOut[j].data).seq => i = j
    /\ \A t \in Holding : lgNum[t] \notin OutSeqs
    /\ \A t, u \in Holding : lgNum[t] = lgNum[u] => t = u
    /\ OutSeqs \cup {lgNum[t] : t \in Holding} = 1..lgSeq
    /\ Holding = {} => OutSeqs = 1..Len(lgOut)

\* two threads took their numbers at the same time and the record with
\* the larger number reached the sink first
C15_Witness ==
    /\ Holding = {}
    /\ Len(lgOut) = 2
    /\ lgOut[1].call # lgOut[2].call
    /\ Decode(lgOut[1].data).seq = 2
    /\ Decode(lgOut[2].data).seq = 1
    /\ lgSeq = 2

\* C16: a record is passed to exactly one sink, a sink that was set by
\* New or passed to SetWriter, and never to a sink that was replaced before
\* the log call started: the handle the call uses is the one that was set
\* when the call started or one set later.
C16_SetWriterVisible ==
    /\ \A i \in 1..Len(lgOut) :
          /\ lgOut[i].handle \in 1..Len(lgSinks)
          /\ lgOut[i].sink = lgSinks[lgOut[i].handle]
          /\ lgOut[i].handle >= lgOut[i].epoch
          /\ \A j \in 1..Len(lgOut) : lgOut[j].call = lgOut[i].call => i = j
    /\ \A t \in LThreads :
          lgpc[t] = "l_call" =>
              lgW[t] \in 1..Len(lgSinks) /\ lgW[t] >= lgEpoch[t]
    /\ lgWriter = Len(lgSinks)

\* SetWriter ran while two calls were in flight: the call that had loaded
\* the writer before passed its record to the old sink afterwards, the
\* other one to the new sink
C16_Witness ==
    /\ Len(lgSinks) = 2
    /\ Len(lgOut) = 2
    /\ lgOut[1].epoch = 1 /\ lgOut[1].handle = 2
    /\ lgOut[2].epoch = 1 /\ lgOut[2].handle = 1

\* thread t is inside a call of Fatal
InFatal(t) ==
    lgpc[t] \in {"l_check", "l_seq", "l_get", "l_call", "l_exit"}
        /\ lgCall[t].level = LevelFatal

\* C17: Fatal of Logger and of StructuredLogger exits with status 1, and
\* only after the sink call with its Fatal record has returned; every call
\* of Fatal ends with the exit of the process.
C17_FatalExits ==
    /\ [](lgExit \in {0, 1})
    /\ [](\A t \in LThreads : lgpc[t] \in {"l_exit", "exited"} =>
            /\ lgCall[t].level = LevelFatal
            /\ \E i \in Dispatches(lgCall[t].no) :
                  /\ Decode(lgOut[i].data).level = LevelFatal
                  /\ Decode(lgOut[i].data).msg = lgCall[t].msg)
    /\ [](lgExit = 1 => \E t \in LThreads : lgpc[t] = "exited")
    /\ \A t \in LThreads : InFatal(t) ~> (lgExit = 1)

\* the Logger and the StructuredLogger were both inside Fatal, one of them
\* exited the process after its record was passed to a sink
C17_Witness ==
    /\ lgExit = 1
    /\ lgpc[2] = "exited"
    /\ lgCall[2].path = "fields"
    /\ InFatal(1)
    /\ \E i \in 1..Len(lgOut) :
          lgOut[i].call = lgCall[2].no
              /\ Decode(lgOut[i].data).level = LevelFatal

(***************************************************************************)
(* Two threads that log at Info through the Logger New() returns, whose    *)
(* sink is never replaced: the order in which the sink gets the records.   *)
(***************************************************************************)
OrderCall == LogCallOf(MaxOrderLogs, {LevelInfo})

OrderNext ==
    \/ OrderCall
    \/ LogShouldLog
    \/ LogSequence
    \/ LogLoadWriter
    \/ LogWrite

OrderSpec == LoggerInit /\ [][OrderNext]_vars

\* C28: the records one thread logs reach a sink in increasing order of
\* their sequence numbers, whatever the other thread logs meanwhile.
C28_ThreadOrder ==
    \A i, j \in 1..Len(lgOut) :
        (i < j /\ lgOut[i].thread = lgOut[j].thread
               /\ lgOut[i].handle = lgOut[j].handle)
        => Decode(lgOut[i].data).seq < Decode(lgOut[j].data).seq

\* thread 1 logged twice and thread 2 took its sequence number between the
\* two calls: the sink got thread 1's records 1 and 3 in that order, with
\* record 2 after them
C28_Witness ==
    /\ Len(lgOut) = 3
    /\ lgOut[1].thread = 1 /\ Decode(lgOut[1].data).seq = 1
    /\ lgOut[2].thread = 1 /\ Decode(lgOut[2].data).seq = 3
    /\ lgOut[3].thread = 2 /\ Decode(lgOut[3].data).seq = 2

(***************************************************************************)
(* A Logger whose sink is aw.Writer() of an AsyncWriter: one thread logs   *)
(* at Info and Fatal (the Logger's level is Debug, its writer is never     *)
(* replaced, so the loads of a log call are part of the step that calls    *)
(* aw.Write), the consumer goroutine runs, and os.Exit ends every thread.  *)
(***************************************************************************)
\* l.Info(msg) / l.Fatal(msg) up to the call of the sink: seq :=
\* l.sequence.Add(1), the record is built, w(buf[:pos]) is aw.Write(b)
AsyncLogCall ==
    /\ status = "ready"
    /\ lgExit = 0
    /\ \/ pc[Producer] = "idle"
       \/ pc[Producer] = "w_done"
            /\ Decode(arg[Producer]).level # LevelFatal
    /\ nWrites < MaxFatalLogs
    /\ nWrites' = nWrites + 1
    /\ lgSeq' = lgSeq + 1
    /\ \E level \in CallLevels, now \in LogTimes :
          arg' = [arg EXCEPT ![Producer] =
                    EncodeDirect(level, lgSeq + 1, now, <<nWrites + 1>>)]
    /\ pc' = [pc EXCEPT ![Producer] = "p_head"]
    /\ UNCHANGED <<ringVars, active, localVars, ret, out, nextId, putOK, gots,
                   reqSize, ctor, pre, done, sink, wret, mode, closedAt,
                   mmapVars, codecVars, renderVars, ultVars, lgLevel, lgWriter,
                   lgSinks, lgpc, lgCall, lgMin, lgNum, lgBuf, lgW, lgEpoch,
                   lgOut, lgCalls, lgSets, lgExit>>

\* the steps of aw.Write and of the consumer goroutine while the process
\* runs
AsyncLogStep ==
    /\ lgExit = 0
    /\ \/ WritePut
       \/ WriteReturn
       \/ ConsumerSelect
       \/ ConsumerGet
       \/ ConsumerDeliver

\* os.Exit(1) in Fatal, after logDirect has returned
AsyncFatalExit ==
    /\ status = "ready"
    /\ lgExit = 0
    /\ pc[Producer] = "w_done"
    /\ Decode(arg[Producer]).level = LevelFatal
    /\ lgExit' = 1
    /\ UNCHANGED <<queueVars, mmapVars, codecVars, renderVars, ultVars, lgLevel,
                   lgWriter, lgSinks, lgSeq, lgpc, lgCall, lgMin, lgNum, lgBuf,
                   lgW, lgEpoch, lgOut, lgCalls, lgSets>>

AsyncLogNext ==
    \/ AsyncLogCall
    \/ AsyncLogStep
    \/ AsyncFatalExit

AsyncLogSpec == AsyncInit /\ [][AsyncLogNext]_vars

\* C33: when the process has terminated in Fatal, the sink behind the
\* AsyncWriter has been called with the Fatal record.
C33_FatalDelivered ==
    lgExit = 1 =>
        \E i \in 1..Len(sink) : sink[i].data = arg[Producer]

(***************************************************************************)
(* AsyncWriter that is given records of the lengths a log call can         *)
(* produce, up to the size of the pooled encode buffer.                    *)
(***************************************************************************)
LongLens == {1, EntrySize, EntrySize + 1, PoolBufSize}

LongWriteCall == WriteCallBy(Producer, MaxLongWrites, LongLens)

LongNext ==
    \/ LongWriteCall
    \/ WritePut
    \/ WriteReturn
    \/ ConsumerSelect
    \/ ConsumerGet
    \/ ConsumerDeliver

LongSpec == AsyncInit /\ [][LongNext]_vars

\* C34: the bytes the sink gets for a record are the bytes that were passed
\* to Write, through the ring as well as through the fallback, for records
\* of up to 1024 bytes.
C34_SameBytes ==
    /\ \A i \in 1..Len(sink) :
          sink[i].via = "ring"
          => \E j \in 1..Len(putOK) :
                /\ RecOf(putOK[j].data) = RecOf(sink[i].data)
                /\ sink[i].data = putOK[j].data
    /\ (pc[Producer] = "w_done" /\ ~ret[Producer])
          => \E i \in 1..Len(sink) :
                sink[i].via = "direct" /\ sink[i].data = arg[Producer]

(***************************************************************************)
(* The renderers TerminalWriter and LogfmtWriter: Write(b) parses one      *)
(* record and passes its text to w.out in one call.  Text is a sequence of *)
(* bytes; the text of a timestamp and of a float is one token each (256,   *)
(* 257), which stands for characters that are digits and punctuation.  The *)
(* TerminalWriter is the one NewTerminalWriter makes for an io.Writer that *)
(* is no file: useColor is false.  w.out.Write returns no error.           *)
(***************************************************************************)
\* t.AppendFormat(buf, layout): the text of the timestamp
AppendFormat(ts) == <<256>>

\* appendFloat64 / strconv.FormatFloat: the text of a float
AppendFloat(bits) == <<257>>

RECURSIVE AppendUint(_)
\* appendUint(buf, v): the decimal digits of v
AppendUint(v) ==
    IF v < 10 THEN <<48 + v>>
    ELSE AppendUint(v \div 10) \o <<48 + (v % 10)>>

\* appendInt(buf, v): '-' and the digits of -v when v < 0
AppendInt(v) == IF v < 0 THEN <<45>> \o AppendUint(-v) ELSE AppendUint(v)

\* hex[d] of "0123456789abcdef"
HexDigit(d) == IF d < 10 THEN 48 + d ELSE 87 + d

RECURSIVE AppendHex(_)
\* appendHex(buf, data): hex[b>>4], hex[b&0xf] for every byte
AppendHex(data) ==
    IF data = <<>> THEN <<>>
    ELSE <<HexDigit(Head(data) \div 16), HexDigit(Head(data) % 16)>>
             \o AppendHex(Tail(data))

\* the switch of escapeStringOptimized: what is appended for byte c
EscapeByte(c) ==
    CASE c = 92 -> <<92, 92>>
      [] c = 34 -> <<92, 34>>
      [] c = 10 -> <<92, 110>>
      [] c = 13 -> <<92, 114>>
      [] c = 9 -> <<92, 116>>
      [] OTHER -> <<c>>

RECURSIVE EscapeLoop(_)
\* for _, b := range s { switch b ... }
EscapeLoop(s) ==
    IF s = <<>> THEN <<>>
    ELSE EscapeByte(Head(s)) \o EscapeLoop(Tail(s))

\* escapeStringOptimized where a space does not ask for quotes
EscapeStringNoSpace(buf, s) ==
    IF \A i \in 1..Len(s) : s[i] \notin {34, 92, 10, 13, 9}
    THEN buf \o s
    ELSE buf \o <<34>> \o EscapeLoop(s) \o <<34>>

\* escapeStringOptimized(buf, s)
EscapeStringOptimized(buf, s) ==
    IF \A i \in 1..Len(s) : s[i] \notin {34, 92, 10, 13, 9, 32}
    THEN buf \o s
    ELSE buf \o <<34>> \o EscapeLoop(s) \o <<34>>

\* escapeString(s)
EscapeString(s) == EscapeStringOptimized(<<>>, s)

\* levelStrings[level], levelStrings[5] for a level of 5 and more
LevelString(level) ==
    CASE level = LevelDebug -> <<68, 69, 66, 85, 71>>
      [] level = LevelInfo -> <<73, 78, 70, 79, 32>>
      [] level = LevelWarn -> <<87, 65, 82, 78, 32>>
      [] level = LevelError -> <<69, 82, 82, 79, 82>>
      [] level = LevelFatal -> <<70, 65, 84, 65, 76>>
      [] OTHER -> <<85, 78, 75, 78, 32>>

\* "true" / "false"
BoolText(n) ==
    IF n = 0 THEN <<102, 97, 108, 115, 101>> ELSE <<116, 114, 117, 101>>

\* the value uint64 the model holds in 32 signed bits, as a number >= 0
Unsigned(n) == IF n < 0 THEN (n + MaxInt32) + 1 ELSE n

\* what decodeFieldValueBuf appends for the value v it decoded
TermValue(v, type) ==
    IF ~v.ok THEN <<63>>
    ELSE CASE type = FieldTypeInt -> AppendInt(v.n)
           [] type = FieldTypeUint -> AppendUint(Unsigned(v.n))
           [] type = FieldTypeBool -> BoolText(v.n)
           [] type \in {FieldTypeFloat32, FieldTypeFloat64} ->
                 AppendFloat(v.n)
           [] type = FieldTypeString -> EscapeStringOptimized(<<>>, v.s)
           [] type = FieldTypeBytes -> AppendHex(v.s)

\* the body of the field loop of TerminalWriter.Write for field i at pos:
\* the text so far, the new pos, whether the loop was left by break, and
\* whether b was indexed outside its length
TermField(b, pos, i, buf) ==
    LET sep == IF i > 0 THEN buf \o <<32>> ELSE buf
        keyLen == At(b, pos)
        keyStart == pos + 1
        keyEnd == keyStart + keyLen IN
    IF keyEnd > Len(b)
    THEN [buf |-> sep, pos |-> keyStart, stop |-> TRUE, fault |-> FALSE]
    ELSE IF keyEnd >= Len(b)
    THEN [buf |-> sep, pos |-> keyEnd, stop |-> TRUE, fault |-> FALSE]
    ELSE
    LET type == At(b, keyEnd)
        v == DecodeValue(b, keyEnd + 1, type) IN
    [buf |-> sep \o Slice(b, keyStart, keyEnd) \o <<61>> \o TermValue(v, type),
     pos |-> v.pos, stop |-> FALSE, fault |-> FALSE]

RECURSIVE TermFields(_, _, _, _, _)
\* for i := 0; i < fieldCount && pos < len(b); i++ { ... }
TermFields(b, pos, i, fieldCount, buf) ==
    IF ~(i < fieldCount /\ pos < Len(b))
    THEN [buf |-> buf, fault |-> FALSE]
    ELSE LET f == TermField(b, pos, i, buf) IN
         IF f.stop THEN [buf |-> f.buf, fault |-> f.fault]
         ELSE TermFields(b, f.pos, i + 1, fieldCount, f.buf)

\* the result of a Write call that returned before it touched w.buf
Rejected(saved, err) ==
    [n |-> 0, err |-> err, wrote |-> FALSE, text |-> <<>>, saved |-> saved,
     fault |-> FALSE]

\* TerminalWriter.Write that does not compare the magic bytes
TerminalRenderNoMagic(saved, b) ==
    IF Len(b) < HeaderSize THEN Rejected(saved, "too short")
    ELSE
    LET level == At(b, 5)
        timestamp == GetLE(b, 14)
        hasMsg == HeaderSize < Len(b)
        msgLen == IF hasMsg THEN At(b, HeaderSize) ELSE 0
        p1 == IF hasMsg THEN HeaderSize + 1 ELSE HeaderSize
        msgOK == hasMsg /\ p1 + msgLen <= Len(b)
        pos == IF msgOK THEN p1 + msgLen ELSE p1
        msg == IF msgOK THEN Slice(b, p1, pos) ELSE <<>>
        buf1 == SubSeq(saved, 1, 0) \o LevelString(level) \o <<91>>
                    \o AppendFormat(timestamp) \o <<93, 32>> \o msg
        buf2 == IF pos < Len(b) /\ Len(msg) < TermMsgJust
                THEN buf1 \o [i \in 1..(TermMsgJust - Len(msg)) |-> 32]
                ELSE buf1
        f == IF pos < Len(b)
             THEN TermFields(b, pos + 1, 0, At(b, pos), buf2)
             ELSE [buf |-> buf2, fault |-> FALSE]
        text == f.buf \o <<10>> IN
    [n |-> Len(b), err |-> "none", wrote |-> TRUE, text |-> text,
     saved |-> text, fault |-> f.fault]

\* TerminalWriter.Write(b) of a writer whose w.buf is saved: the result,
\* the text passed to w.out.Write and the new w.buf
TerminalRender(saved, b) ==
    IF Len(b) < HeaderSize THEN Rejected(saved, "too short")
    ELSE IF Slice(b, 0, 4) # <<71, 79, 76, 85>> THEN Rejected(saved, "magic")
    ELSE
    LET level == At(b, 5)
        timestamp == GetLE(b, 14)
        hasMsg == HeaderSize < Len(b)
        msgLen == IF hasMsg THEN At(b, HeaderSize) ELSE 0
        p1 == IF hasMsg THEN HeaderSize + 1 ELSE HeaderSize
        msgOK == hasMsg /\ p1 + msgLen <= Len(b)
        pos == IF msgOK THEN p1 + msgLen ELSE p1
        msg == IF msgOK THEN Slice(b, p1, pos) ELSE <<>>
        buf1 == SubSeq(saved, 1, 0) \o LevelString(level) \o <<91>>
                    \o AppendFormat(timestamp) \o <<93, 32>> \o msg
        buf2 == IF pos < Len(b) /\ Len(msg) < TermMsgJust
                THEN buf1 \o [i \in 1..(TermMsgJust - Len(msg)) |-> 32]
                ELSE buf1
        f == IF pos < Len(b)
             THEN TermFields(b, pos + 1, 0, At(b, pos), buf2)
             ELSE [buf |-> buf2, fault |-> FALSE]
        text == f.buf \o <<10>> IN
    [n |-> Len(b), err |-> "none", wrote |-> TRUE, text |-> text,
     saved |-> text, fault |-> f.fault]

RECURSIVE Runes(_)
\* for _, c := range s: the runes of s; a byte that starts no rune of one
\* or two bytes is read as one rune U+FFFD (the inputs of the model hold no
\* rune of three or four bytes)
Runes(s) ==
    IF s = <<>> THEN <<>>
    ELSE IF Head(s) < 128 THEN <<Head(s)>> \o Runes(Tail(s))
    ELSE IF Head(s) \in 194..223 /\ Len(s) >= 2 /\ s[2] \in 128..191
    THEN <<(Head(s) % 32) * 64 + (s[2] % 64)>> \o Runes(SubSeq(s, 3, Len(s)))
    ELSE <<65533>> \o Runes(Tail(s))

\* the quoting loop of appendQuoted: what is appended for rune c
QuoteRune(c) ==
    CASE c = 34 -> <<92, 34>>
      [] c = 92 -> <<92, 92>>
      [] c = 10 -> <<92, 110>>
      [] c = 13 -> <<92, 114>>
      [] OTHER -> <<c % 256>>

RECURSIVE QuoteLoop(_)
QuoteLoop(runes) ==
    IF runes = <<>> THEN <<>>
    ELSE QuoteRune(Head(runes)) \o QuoteLoop(Tail(runes))

\* appendQuoted(buf, s)
AppendQuoted(buf, s) ==
    LET runes == Runes(s)
        needsQuotes == \E i \in 1..Len(runes) :
                           runes[i] \in {32, 34, 61, 10, 13} IN
    IF ~needsQuotes /\ s # <<>> THEN buf \o s
    ELSE buf \o <<34>> \o QuoteLoop(runes) \o <<34>>

\* getLevelString(level)
GetLevelString(level) ==
    CASE level = LevelDebug -> <<100, 101, 98, 117, 103>>
      [] level = LevelInfo -> <<105, 110, 102, 111>>
      [] level = LevelWarn -> <<119, 97, 114, 110>>
      [] level = LevelError -> <<101, 114, 114, 111, 114>>
      [] level = LevelFatal -> <<102, 97, 116, 97, 108>>
      [] OTHER -> <<117, 110, 107, 110, 111, 119, 110>>

\* LogfmtWriter.decodeFieldValue for the value v that was decoded
LogfmtValue(v, type) ==
    IF ~v.ok THEN <<63>>
    ELSE CASE type = FieldTypeInt -> AppendInt(v.n)
           [] type = FieldTypeUint -> AppendUint(Unsigned(v.n))
           [] type = FieldTypeBool -> BoolText(v.n)
           [] type \in {FieldTypeFloat32, FieldTypeFloat64} ->
                 AppendFloat(v.n)
           [] type = FieldTypeString -> AppendQuoted(<<>>, v.s)
           [] type = FieldTypeBytes -> AppendHex(v.s)

\* the body of the field loop of LogfmtWriter.Write for field i at pos
LogfmtField(b, pos, i, buf) ==
    LET keyLen == At(b, pos)
        keyStart == pos + 1
        keyEnd == keyStart + keyLen IN
    IF keyEnd > Len(b)
    THEN [buf |-> buf, pos |-> keyStart, stop |-> TRUE, fault |-> FALSE]
    ELSE IF keyEnd >= Len(b)
    THEN [buf |-> buf, pos |-> keyEnd, stop |-> TRUE, fault |-> FALSE]
    ELSE
    LET type == At(b, keyEnd)
        v == DecodeValue(b, keyEnd + 1, type) IN
    [buf |-> buf \o <<32>> \o Slice(b, keyStart, keyEnd) \o <<61>>
                 \o LogfmtValue(v, type),
     pos |-> v.pos, stop |-> FALSE, fault |-> FALSE]

RECURSIVE LogfmtFields(_, _, _, _, _)
\* for i := 0; i < fieldCount && pos < len(b); i++ { ... }
LogfmtFields(b, pos, i, fieldCount, buf) ==
    IF ~(i < fieldCount /\ pos < Len(b))
    THEN [buf |-> buf, fault |-> FALSE]
    ELSE LET f == LogfmtField(b, pos, i, buf) IN
         IF f.stop THEN [buf |-> f.buf, fault |-> f.fault]
         ELSE LogfmtFields(b, f.pos, i + 1, fieldCount, f.buf)

\* LogfmtWriter.Write(b) of a writer whose pool holds the buffer saved
LogfmtRender(saved, b) ==
    IF Len(b) < HeaderSize THEN Rejected(saved, "too short")
    ELSE IF Slice(b, 0, 4) # PutLE(MagicHeader, 4)
    THEN Rejected(saved, "magic")
    ELSE
    LET level == At(b, 5)
        timestamp == GetLE(b, 14)
        hasMsg == HeaderSize < Len(b)
        msgLen == IF hasMsg THEN At(b, HeaderSize) ELSE 0
        p1 == IF hasMsg THEN HeaderSize + 1 ELSE HeaderSize
        msgOK == hasMsg /\ p1 + msgLen <= Len(b)
        pos == IF msgOK THEN p1 + msgLen ELSE p1
        msg == IF msgOK THEN Slice(b, p1, pos) ELSE <<>>
        buf1 == SubSeq(saved, 1, 0) \o <<116, 105, 109, 101, 61>>
                    \o AppendFormat(timestamp)
                    \o <<32, 108, 101, 118, 101, 108, 61>>
                    \o GetLevelString(level) \o <<32, 109, 115, 103, 61>>
        buf2 == AppendQuoted(buf1, msg)
        f == IF pos < Len(b)
             THEN LogfmtFields(b, pos + 1, 0, At(b, pos), buf2)
             ELSE [buf |-> buf2, fault |-> FALSE]
        text == f.buf \o <<10>> IN
    [n |-> Len(b), err |-> "none", wrote |-> TRUE, text |-> text,
     saved |-> text, fault |-> f.fault]

(***************************************************************************)
(* Write calls on one renderer.  The first call gets any prefix of a       *)
(* record, a record with a bad magic or a record whose tail is not what    *)
(* the encoder writes; the calls after it get one of a few records.        *)
(***************************************************************************)
\* the records the renderer is given
RenderRecords ==
    {EncodeFields(LevelInfo, 1, 77777, <<104, 101, 108, 108, 111>>,
                  MixedFields),
     EncodeDirect(LevelWarn, 2, 77777, <<104, 105>>),
     \* the message "a\nb", the key "k\n", the value "x " and U+010A
     EncodeFields(LevelError, 3, 0, <<97, 10, 98>>,
                  <<String(<<107, 10>>, <<120, 32, 196, 138>>)>>),
     \* two fields, the first with the type tag 99
     Header(LevelDebug, 4, 0) \o <<2, 104, 105>> \o <<2>>
         \o <<1, 107, 99>> \o EncodeField(100, Int64(KeyBytes, 7)),
     \* a field count that is larger than the fields that follow
     Header(9, 5, 0) \o <<0>> \o <<MaxFieldCount>>
         \o EncodeField(100, String(KeyBytes, <<97, 32, 98>>))}

\* make([]byte, 30), and a record whose fourth byte is wrong
BadMagic ==
    {[i \in 1..30 |-> 0],
     <<71, 79, 76, 86>> \o Slice(Header(LevelInfo, 1, 0), 4, HeaderSize)}

\* what the first Write call of a run is given
RenderInputs ==
    {Slice(r, 0, Min(n, Len(r))) : r \in RenderRecords, n \in 0..MaxRenderLen}
        \cup BadMagic

\* what the later Write calls are given
RenderFollowUps ==
    {EncodeDirect(LevelWarn, 2, 77777, <<104, 105>>),
     EncodeFields(LevelInfo, 1, 77777, <<104, 101, 108, 108, 111>>,
                  MixedFields),
     Slice(Header(LevelInfo, 1, 0), 0, 10),
     [i \in 1..30 |-> 0]}

RenderInit ==
    /\ Unbuilt
    /\ MmapIdle
    /\ CodecIdle
    /\ LoggerIdle
    /\ UltIdle
    /\ rKind \in {"terminal", "logfmt"}
    /\ rIn = <<>>
    /\ rRet = [n |-> 0, err |-> "none"]
    /\ rOut = <<>>
    /\ rSaved = <<>>
    /\ rFault = FALSE
    /\ rCalls = 0
    /\ eIn = <<>>
    /\ eOut = <<>>
    /\ epc = "idle"

\* the variables a renderer leaves alone
notRenderVars ==
    <<queueVars, mmapVars, codecVars, loggerVars, ultVars, eIn, eOut, epc>>

\* w.Write(b) returned with result r
Rendered(b, r) ==
    /\ rIn' = b
    /\ rRet' = [n |-> r.n, err |-> r.err]
    /\ rOut' = IF r.wrote THEN Append(rOut, r.text) ELSE rOut
    /\ rSaved' = r.saved
    /\ rFault' = (rFault \/ r.fault)
    /\ rCalls' = rCalls + 1
    /\ UNCHANGED <<rKind, notRenderVars>>

\* a call of TerminalWriter.Write
TerminalWrite ==
    /\ rKind = "terminal"
    /\ rCalls < MaxRenders
    /\ \E b \in IF rCalls = 0 THEN RenderInputs ELSE RenderFollowUps :
          Rendered(b, TerminalRender(rSaved, b))

\* a call of LogfmtWriter.Write
LogfmtWrite ==
    /\ rKind = "logfmt"
    /\ rCalls < MaxRenders
    /\ \E b \in IF rCalls = 0 THEN RenderInputs ELSE RenderFollowUps :
          Rendered(b, LogfmtRender(rSaved, b))

RenderNext ==
    \/ TerminalWrite
    \/ LogfmtWrite

RenderSpec == RenderInit /\ [][RenderNext]_vars

\* b has 22 bytes or more and starts with the magic bytes
ValidHeader(b) ==
    Len(b) >= HeaderSize /\ Slice(b, 0, 4) = PutLE(MagicHeader, 4)

\* what a renderer that was never used before writes for b
FreshText(b) ==
    IF rKind = "terminal" THEN TerminalRender(<<>>, b).text
    ELSE LogfmtRender(<<>>, b).text

\* C23: when the input is shorter than 22 bytes or does not start with the
\* magic bytes, Write of TerminalWriter and of LogfmtWriter returns an error
\* and 0, passes nothing to its output and leaves the renderer as it was;
\* a valid record given afterwards is rendered as by a fresh renderer.
C23_RejectsBadHeader ==
    /\ [](rCalls > 0 =>
            IF ValidHeader(rIn) THEN rRet.err = "none"
            ELSE rRet.err # "none" /\ rRet.n = 0)
    /\ [][rCalls' = rCalls + 1 =>
            IF ValidHeader(rIn')
            THEN rOut' = Append(rOut, FreshText(rIn'))
            ELSE UNCHANGED <<rOut, rSaved, rFault>>]_vars

\* the TerminalWriter rejected its first input, which wrote nothing, and
\* then rendered a record
C23_Witness ==
    /\ rKind = "terminal"
    /\ rCalls = 2
    /\ Len(rOut) = 1
    /\ rRet.err = "none"
    /\ ValidHeader(rIn)
    /\ rOut[1] = TerminalRender(<<>>, rIn).text
    /\ rSaved = rOut[1]

\* the number of bytes c in text
CountOf(text, c) == Cardinality({i \in 1..Len(text) : text[i] = c})

\* pat is a part of text
Contains(text, pat) ==
    \E i \in 0..(Len(text) - Len(pat)) :
        SubSeq(text, i + 1, i + Len(pat)) = pat

\* the text passed to the output for a record with a valid header has a
\* '?' for every field whose value could not be decoded
Placeholders ==
    \A i \in 1..Len(Decode(rIn).fields) :
        ~Decode(rIn).fields[i].ok =>
            Contains(rOut[Len(rOut)], Decode(rIn).fields[i].key \o <<61, 63>>)

\* C24: for an input with a valid header, whatever follows it, the
\* renderers return no error, index no byte outside the input, and pass to
\* the output exactly one line, in which a field value that is missing,
\* too short or of an unknown type is a '?'.
C24_OneLine ==
    /\ []((rCalls > 0 /\ ValidHeader(rIn)) =>
            /\ rRet.err = "none"
            /\ rRet.n = Len(rIn)
            /\ ~rFault
            /\ rOut # <<>>
            /\ rOut[Len(rOut)][Len(rOut[Len(rOut)])] = 10
            /\ CountOf(rOut[Len(rOut)], 10) = 1
            /\ Placeholders)
    /\ [][(rCalls' = rCalls + 1 /\ ValidHeader(rIn')) =>
            Len(rOut') = Len(rOut) + 1]_vars

(***************************************************************************)
(* escapeString applied to one string.                                     *)
(***************************************************************************)
\* 'a', 'b', '=', and the bytes escapeStringOptimized looks for
EscAlphabet == {97, 98, 61, 34, 92, 10, 13, 9, 32}

\* the arguments of escapeString
EscInputs ==
    UNION {[1..n -> EscAlphabet] : n \in 0..MaxEscLen}

EscInit ==
    /\ Unbuilt
    /\ MmapIdle
    /\ CodecIdle
    /\ LoggerIdle
    /\ UltIdle
    /\ rKind = "none"
    /\ rIn = <<>>
    /\ rRet = [n |-> 0, err |-> "none"]
    /\ rOut = <<>>
    /\ rSaved = <<>>
    /\ rFault = FALSE
    /\ rCalls = 0
    /\ eIn \in EscInputs
    /\ eOut = <<>>
    /\ epc = "input"

\* escapeString(s) returns
EscApply ==
    /\ epc = "input"
    /\ eOut' = EscapeString(eIn)
    /\ epc' = "done"
    /\ UNCHANGED <<eIn, queueVars, mmapVars, codecVars, loggerVars, ultVars,
                   rKind, rIn, rRet, rOut, rSaved, rFault, rCalls>>

EscNext == EscApply

EscSpec == EscInit /\ [][EscNext]_vars

\* the bytes that make escapeString quote its argument
Special == {34, 92, 10, 13, 9, 32}

\* what stands for byte c between the quotes
Escaped(c) ==
    IF c = 92 THEN <<92, 92>>
    ELSE IF c = 34 THEN <<92, 34>>
    ELSE IF c = 10 THEN <<92, 110>>
    ELSE IF c = 13 THEN <<92, 114>>
    ELSE IF c = 9 THEN <<92, 116>>
    ELSE <<c>>

RECURSIVE EscapedUpTo(_, _)
\* the escaped form of the first n bytes of s
EscapedUpTo(s, n) ==
    IF n = 0 THEN <<>> ELSE EscapedUpTo(s, n - 1) \o Escaped(s[n])

\* C25: escapeString returns its argument unchanged exactly when it holds
\* no double quote, backslash, newline, carriage return, tab or space;
\* otherwise it returns the argument between double quotes, with backslash
\* and double quote behind a backslash, newline, carriage return and tab
\* as \n, \r and \t, and every other byte as it is.
C25_Escape ==
    epc = "done" =>
        /\ (eOut = eIn) <=> (\A i \in 1..Len(eIn) : eIn[i] \notin Special)
        /\ (\E i \in 1..Len(eIn) : eIn[i] \in Special) =>
               eOut = <<34>> \o EscapedUpTo(eIn, Len(eIn)) \o <<34>>

\* escape("a b") returned "a b" in double quotes
C25_Witness ==
    /\ epc = "done"
    /\ eIn = <<97, 32, 98>>
    /\ eOut = <<34, 97, 32, 98, 34>>

(***************************************************************************)
(* UltimateLogger: two threads call Info, Debug and Error on loggers that  *)
(* share globalBuffer and globalOffset, and GetBuffer is called at any     *)
(* time.  atomic.AddUint64 and atomic.StoreUint64 on the offset are one    *)
(* step each; the plain writes of the header (with the sequence.Add        *)
(* between them) are one step and the memmove of the message is another.   *)
(* A byte of globalBuffer is kept as the number of the call that wrote it  *)
(* last.  The level stays LevelInfo, the level NewUltimateLogger sets.     *)
(***************************************************************************)
\* the lengths of the messages: "wrap test" and a message of 250 bytes
UltMsgLens == {9, 250}

UltLevels == {LevelDebug, LevelInfo, LevelError}

\* var globalBuffer = make([]byte, ...); var globalOffset uint64;
\* NewUltimateLogger()
UltInit ==
    /\ Unbuilt
    /\ MmapIdle
    /\ CodecIdle
    /\ LoggerIdle
    /\ RenderIdle
    /\ uOffset = 0
    /\ uSeq = 0
    /\ uData = [i \in 0..(GlobalBufferLen - 1) |-> 0]
    /\ upc = [t \in UThreads |-> "idle"]
    /\ uCall = [t \in UThreads |-> NoULog]
    /\ uOff = [t \in UThreads |-> 0]
    /\ uSeen = -1
    /\ uFault = FALSE
    /\ uCalls = 0

\* the variables a run of the UltimateLogger leaves alone
notUltVars == <<queueVars, mmapVars, codecVars, loggerVars, renderVars>>

\* size := uint64(23 + msgLen)
UltSize(c) == UltHeaderSize + c.msgLen

\* bytes [from, from + n) of globalBuffer written by call no
UltFill(data, from, n, no) ==
    [i \in DOMAIN data |-> IF from <= i /\ i < from + n THEN no ELSE data[i]]

\* l.Info(msg), l.Debug(msg), l.Error(msg): msgLen := len(msg);
\* if msgLen > 200 { msgLen = 200 }
UltCall ==
    /\ ~uFault
    /\ uCalls < MaxULogs
    /\ uCalls' = uCalls + 1
    /\ \E t \in UThreads, level \in UltLevels, n \in UltMsgLens :
        /\ upc[t] \in {"idle", "u_done"}
        /\ upc' = [upc EXCEPT ![t] = "u_level"]
        /\ uCall' = [uCall EXCEPT ![t] =
                       [no |-> uCalls + 1, level |-> level,
                        msgLen |-> Min(n, UltMaxMsg)]]
        /\ uOff' = [uOff EXCEPT ![t] = 0]
    /\ UNCHANGED <<uOffset, uSeq, uData, uSeen, uFault, notUltVars>>

\* if atomic.LoadUint32(&l.level) > uint32(level) { return }
UltLevel(t) ==
    /\ ~uFault
    /\ upc[t] = "u_level"
    /\ upc' = [upc EXCEPT ![t] =
                 IF LevelInfo > uCall[t].level THEN "u_done" ELSE "u_add"]
    /\ UNCHANGED <<uOffset, uSeq, uData, uCall, uOff, uSeen, uFault, uCalls>>

\* offset := atomic.AddUint64(l.offset, size) - size;
\* if offset+size > uint64(len(globalBuffer)) {...}
UltAdd(t) ==
    /\ ~uFault
    /\ upc[t] = "u_add"
    /\ uOff' = [uOff EXCEPT ![t] = uOffset]
    /\ uOffset' = uOffset + UltSize(uCall[t])
    /\ upc' = [upc EXCEPT ![t] =
                 IF uOffset + UltSize(uCall[t]) > GlobalBufferLen
                 THEN "u_wrap" ELSE "u_head"]
    /\ UNCHANGED <<uSeq, uData, uCall, uSeen, uFault, uCalls>>

\* atomic.StoreUint64(l.offset, size); offset = 0
UltWrap(t) ==
    /\ ~uFault
    /\ upc[t] = "u_wrap"
    /\ uOffset' = UltSize(uCall[t])
    /\ uOff' = [uOff EXCEPT ![t] = 0]
    /\ upc' = [upc EXCEPT ![t] = "u_head"]
    /\ UNCHANGED <<uSeq, uData, uCall, uSeen, uFault, uCalls>>

\* the writes at p .. p+22: magic, version, level,
\* seq := atomic.AddUint64(&l.sequence, 1), timestamp, message length
UltHeader(t) ==
    /\ ~uFault
    /\ upc[t] = "u_head"
    /\ uSeq' = uSeq + 1
    /\ uData' = UltFill(uData, uOff[t], UltHeaderSize, uCall[t].no)
    /\ upc' = [upc EXCEPT ![t] =
                 IF uCall[t].msgLen > 0 THEN "u_msg" ELSE "u_done"]
    /\ UNCHANGED <<uOffset, uCall, uOff, uSeen, uFault, uCalls>>

\* memmove(p+23, msg, msgLen)
UltMessage(t) ==
    /\ ~uFault
    /\ upc[t] = "u_msg"
    /\ uData' = UltFill(uData, uOff[t] + UltHeaderSize, uCall[t].msgLen,
                        uCall[t].no)
    /\ upc' = [upc EXCEPT ![t] = "u_done"]
    /\ UNCHANGED <<uOffset, uSeq, uCall, uOff, uSeen, uFault, uCalls>>

\* offset := atomic.LoadUint64(l.offset); return globalBuffer[:offset],
\* offset: the slice expression panics when offset > len(globalBuffer)
GetBuffer ==
    /\ ~uFault
    /\ uSeen' = uOffset
    /\ uFault' = (uOffset > GlobalBufferLen)
    /\ UNCHANGED <<uOffset, uSeq, uData, upc, uCall, uOff, uCalls,
                   notUltVars>>

UltCheckLevel ==
    /\ \E t \in UThreads : UltLevel(t)
    /\ UNCHANGED notUltVars

UltAllocate ==
    /\ \E t \in UThreads : UltAdd(t)
    /\ UNCHANGED notUltVars

UltWrapAround ==
    /\ \E t \in UThreads : UltWrap(t)
    /\ UNCHANGED notUltVars

UltWriteHeader ==
    /\ \E t \in UThreads : UltHeader(t)
    /\ UNCHANGED notUltVars

UltWriteMessage ==
    /\ \E t \in UThreads : UltMessage(t)
    /\ UNCHANGED notUltVars

UltNext ==
    \/ UltCall
    \/ UltCheckLevel
    \/ UltAllocate
    \/ UltWrapAround
    \/ UltWriteHeader
    \/ UltWriteMessage
    \/ GetBuffer

UltSpec == UltInit /\ [][UltNext]_vars

\* C38: the shared offset is at most len(globalBuffer) whenever GetBuffer
\* can load it, so GetBuffer never slices globalBuffer past its end.
C38_OffsetInBuffer ==
    /\ uOffset <= GlobalBufferLen
    /\ ~uFault

====
